---- MODULE Spec2Model ----
(***************************************************************************)
(* devpipe: the event-driven monitor (src/monitor.py) as a state machine.  *)
(*                                                                         *)
(* One asyncio event loop runs the command loop, the CDP event handlers,   *)
(* the bundle add tasks, the bundle flush timers, the new-page and         *)
(* navigation handlers and the log writer.  A step of the model is the     *)
(* code a task runs between two suspension points.  Time is counted in     *)
(* units of 100 ms; the loop does not block for a timer while a task is    *)
(* ready to run, so the clock advances only when no add task or freshly    *)
(* created timer task is waiting for its turn and no sleeping timer is     *)
(* overdue.                                                                *)
(***************************************************************************)
EXTENDS Integers, Sequences, FiniteSets, TLC

\* ------------------------------------------------------------------ bounds
MaxTime == 15
MaxClickTime == 15
MaxConsoleTime == 4
MaxEvents == 3
MaxPipeEvents == 2
MaxCmds == 3
MaxPages == 3
MaxNavs == 3
MaxItems == 6
MaxTruncations == 2

\* ------------------------------------------------------- program constants
\* (durations in units of 100 ms)
RATE_LIMIT_COUNT == 3
RATE_LIMIT_WINDOW == 10
MICRO_DEBOUNCE_WINDOW == 2
BUNDLE_WINDOW == 10
MAX_VALUE_LENGTH == 128
MAX_URL_LENGTH == 200
MAX_ITEMS == 5
\* datetime.min, in the model's time unit: far before any click
DATETIME_MIN == -1000
\* page_id "main" of single-tab tracking; "tab-<n>" is the number n
MainId == -1

BUNDLED_TYPES == {"Stylesheet", "Script", "Image", "Font", "Media", "Other", "Manifest"}

VARIABLES
  now,                  \* the clock (datetime.now(), loop.time())
  pc,                   \* where the command loop (the main task) stands
  track_all_tabs,
  is_logging,
  log_file_path,        \* 0 is None
  event_queue,
  files,                \* path -> the lines appended to that file
  writers,              \* the _log_writer tasks ever created: their states
  log_writer_task,      \* index into writers, 0 is None
  reference_requests,   \* fingerprint -> first event
  resource_bundle,
  bundle_timer,         \* index into timers, 0 is None
  timers,               \* the _bundle_timeout tasks ever created
  add_tasks,            \* the _add_to_bundle tasks created and not yet run (FIFO)
  ui_click_timestamps,
  last_log_time,
  trackers,             \* the PageTracker objects ever created
  page_trackers,        \* page_id -> index into trackers
  page_listener_active,
  page_listeners,       \* the "page" subscriptions of _handle_new_page on the context
  context_pages,        \* context.pages of the connected browser
  new_page_tasks,       \* _handle_new_page coroutines asleep in their delay
  nav_tasks,            \* _handle_navigation coroutines asleep in their delay
  scanner,              \* a UIScanner (src/ui_scanner.py): its window, last time, queue
  n_emitted,            \* records put on the queue so far (stamps each record)
  budget,               \* how many inputs of each kind the model has delivered
  hist,                 \* what has happened so far, for the properties
  obs                   \* what the last step did, for the properties

vars == << now, pc, track_all_tabs, is_logging, log_file_path, event_queue, files,
           writers, log_writer_task, reference_requests, resource_bundle,
           bundle_timer, timers, add_tasks, ui_click_timestamps, last_log_time,
           trackers, page_trackers, page_listener_active, page_listeners, context_pages,
           new_page_tasks, nav_tasks, scanner, n_emitted, budget, hist, obs >>

writerVars == << files, writers, log_writer_task >>
dedupVars == << reference_requests >>
bundleVars == << resource_bundle, bundle_timer, timers, add_tasks >>
clickVars == << ui_click_timestamps, last_log_time >>
tabVars == << trackers, page_trackers, page_listener_active, page_listeners, context_pages,
              new_page_tasks, nav_tasks >>

\* ------------------------------------------------------------ small helpers
Range(s) == { s[i] : i \in 1..Len(s) }

EmptyMap == [x \in {} |-> x]

RECURSIVE SeqSum(_)
SeqSum(s) == IF s = << >> THEN 0 ELSE Head(s) + SeqSum(Tail(s))

\* ------------------------------------------------------------------ strings
\* A string is txt (what it says), n (its length) and ann: 0 for a string as
\* it was received, else the length its "... (<ann> chars)" suffix reports;
\* such a string is the first MAX_VALUE_LENGTH characters of txt and the suffix.
Str(t, len) == [txt |-> t, n |-> len, ann |-> 0]

\* a number (not a string: _truncate_value returns it as it is)
Num(k) == [num |-> k]

Digits(k) == IF k < 10 THEN 1 ELSE IF k < 100 THEN 2 ELSE IF k < 1000 THEN 3 ELSE 4

\* len("... (") + the digits + len(" chars)")
SuffixLen(k) == 5 + Digits(k) + 7

\* ---------------------------------------------------------------- URLs
\* A URL is what urlparse makes of it: scheme, netloc, path and the query, the
\* query as its '&'-separated parameters.  The lengths of the parts:
StrLen(s) ==
  CASE s = "https" -> 5
    [] s = "x.test" -> 6
    [] s = "/api" -> 4
    [] s = "/b" -> 2
    [] s = "/a.css" -> 6
    [] s = "/b.css" -> 6
    [] s = "/c.png" -> 6
    [] s = "/deep" -> 190
    [] s = "/huge" -> 260
    [] s = "foo=1" -> 5
    [] s = "foo=2" -> 5
    [] s = "blob" -> 60
    [] OTHER -> 3      \* a method or a resource type: a short word

Url(p, q) == [scheme |-> "https", netloc |-> "x.test", path |-> p, query |-> q]

QueryLen(q) == IF q = << >> THEN 0 ELSE SeqSum([i \in 1..Len(q) |-> StrLen(q[i])]) + Len(q) - 1

BaseLen(u) == StrLen(u.scheme) + 3 + StrLen(u.netloc) + StrLen(u.path)

UrlLen(u) == BaseLen(u) + (IF u.query = << >> THEN 0 ELSE 1 + QueryLen(u.query))

\* _simplify_url: the URL itself when short, else one of the summaries
SimplifyUrl(u) ==
  IF UrlLen(u) <= MAX_URL_LENGTH THEN [form |-> "full", url |-> u]
  ELSE IF BaseLen(u) > MAX_URL_LENGTH THEN [form |-> "base_cut", url |-> u]
  ELSE IF u.query # << >>
       THEN IF Len(u.query) > 3 THEN [form |-> "first_param_and_count", url |-> u]
            ELSE [form |-> "query_cut", url |-> u]
  ELSE [form |-> "base", url |-> u]

\* ------------------------------------------------------------- raw events
NoType == "<missing>"

\* A Network.requestWillBeSent event as the driver hands it over
RawEvent(rid, wt, ty, u, m, ct, pd) ==
  [ requestId |-> rid, wallTime |-> wt, type |-> ty, tab_id |-> MainId,
    request |-> [url |-> u, method |-> m, headers |-> ct, postData |-> pd],
    while_logging |-> TRUE ]     \* while_logging: observation only

\* event.get('type', 'Other')
TypeOfNoDefault(ev) == ev.type

TypeOf(ev) == IF ev.type = NoType THEN "Other" ELSE ev.type

\* ------------------------------------------------------------- the diff
\* The leaves of an event and the paths DeepDiff reports them under
LeafPaths == { << "requestId" >>, << "wallTime" >>, << "type" >>, << "tab_id" >>,
               << "request", "url" >>, << "request", "method" >>,
               << "request", "headers", "Content-Type" >>,
               << "request", "postData" >> }

Leaf(ev, p) ==
  CASE p = << "requestId" >> -> ev.requestId
    [] p = << "wallTime" >> -> ev.wallTime
    [] p = << "type" >> -> Str(ev.type, StrLen(ev.type))
    [] p = << "tab_id" >> -> Num(ev.tab_id)
    [] p = << "request", "url" >> -> ev.request.url
    [] p = << "request", "method" >> -> Str(ev.request.method, StrLen(ev.request.method))
    [] p = << "request", "headers", "Content-Type" >> -> ev.request.headers
    [] p = << "request", "postData" >> -> ev.request.postData

\* DeepDiff(reference, event, ignore_order=True)['values_changed']: the leaves
\* present in both whose values differ
ValuesChanged(ref, ev) == { p \in LeafPaths : Leaf(ref, p) # Leaf(ev, p) }

Chars(k) ==
  CASE k = "root" -> << "r", "o", "o", "t" >>
    [] k = "requestId" -> << "r", "e", "q", "u", "e", "s", "t", "I", "d" >>
    [] k = "wallTime" -> << "w", "a", "l", "l", "T", "i", "m", "e" >>
    [] k = "timestamp" -> << "t", "i", "m", "e", "s", "t", "a", "m", "p" >>
    [] k = "type" -> << "t", "y", "p", "e" >>
    [] k = "tab_id" -> << "t", "a", "b", "_", "i", "d" >>
    [] k = "request" -> << "r", "e", "q", "u", "e", "s", "t" >>
    [] k = "url" -> << "u", "r", "l" >>
    [] k = "method" -> << "m", "e", "t", "h", "o", "d" >>
    [] k = "headers" -> << "h", "e", "a", "d", "e", "r", "s" >>
    [] k = "Content-Type" -> << "C", "o", "n", "t", "e", "n", "t", "-", "T", "y", "p", "e" >>
    [] k = "postData" -> << "p", "o", "s", "t", "D", "a", "t", "a" >>
    [] k = "postDataEntries" -> << "p", "o", "s", "t", "D", "a", "t", "a", "E", "n", "t", "r", "i", "e", "s" >>
    [] k = "callFrames" -> << "c", "a", "l", "l", "F", "r", "a", "m", "e", "s" >>
    [] k = "main" -> << "m", "a", "i", "n" >>
    [] k = "tab-" -> << "t", "a", "b", "-" >>
    [] k = "GET" -> << "G", "E", "T" >>
    [] k = "POST" -> << "P", "O", "S", "T" >>
    [] k = "https" -> << "h", "t", "t", "p", "s" >>
    [] k = "http" -> << "h", "t", "t", "p" >>
    [] k = "x.test" -> << "x", ".", "t", "e", "s", "t" >>
    [] k = "y.test" -> << "y", ".", "t", "e", "s", "t" >>
    [] k = "/api" -> << "/", "a", "p", "i" >>
    [] k = "/b" -> << "/", "b" >>
    [] k = "/a.css" -> << "/", "a", ".", "c", "s", "s" >>
    [] k = "/b.css" -> << "/", "b", ".", "c", "s", "s" >>
    [] k = "foo=1" -> << "f", "o", "o", "=", "1" >>
    [] k = "foo=2" -> << "f", "o", "o", "=", "2" >>
    [] k = "" -> << >>

\* str(n) of a natural number
RECURSIVE Decimal(_)
Decimal(n) ==
  IF n < 10 THEN << << "0", "1", "2", "3", "4", "5", "6", "7", "8", "9" >>[n + 1] >>
  ELSE Decimal(n \div 10) \o Decimal(n % 10)

\* the page_id as the string it is: "main" or "tab-<n>"
TabIdString(tab_id) == IF tab_id = MainId THEN Chars("main") ELSE Chars("tab-") \o Decimal(tab_id)

\* '&'.join of the query's parameters
RECURSIVE QueryString(_)
QueryString(q) ==
  IF q = << >> THEN << >>
  ELSE IF Len(q) = 1 THEN Chars(q[1])
  ELSE Chars(q[1]) \o << "&" >> \o QueryString(Tail(q))

\* Fingerprint of process(): the string
\* f"{tab_id}::{method}::{scheme}://{netloc}{path}" of the parsed URL
FingerprintWithQuery(tab_id, method, u) ==
  TabIdString(tab_id) \o << ":", ":" >> \o Chars(method) \o << ":", ":" >>
    \o Chars(u.scheme) \o << ":", "/", "/" >> \o Chars(u.netloc) \o Chars(u.path)
    \o << "?" >> \o QueryString(u.query)

Fingerprint(tab_id, method, u) ==
  TabIdString(tab_id) \o << ":", ":" >> \o Chars(method) \o << ":", ":" >>
    \o Chars(u.scheme) \o << ":", "/", "/" >> \o Chars(u.netloc) \o Chars(u.path)

\* The path as DeepDiff spells it: root['a']['b']
RECURSIVE PathString(_)
PathString(p) ==
  IF p = << >> THEN Chars("root")
  ELSE PathString(SubSeq(p, 1, Len(p) - 1)) \o << "[", "'" >> \o Chars(p[Len(p)]) \o << "'", "]" >>

\* Python's `pattern in path`
IsSubstring(pat, s) ==
  \E i \in 0..(Len(s) - Len(pat)) : SubSeq(s, i + 1, i + Len(pat)) = pat

SkipPatterns == << "callFrames", "postData", "postDataEntries", "wallTime", "timestamp" >>

\* _should_skip_path
ShouldSkipPathNoTime(p) ==
  \E i \in 1..3 : IsSubstring(Chars(SkipPatterns[i]), PathString(p))

ShouldSkipPath(p) ==
  \E i \in 1..Len(SkipPatterns) : IsSubstring(Chars(SkipPatterns[i]), PathString(p))

\* len(value) of a string: a Str, or a URL, whose length is UrlLen
ValueLen(v) == IF "n" \in DOMAIN v THEN v.n ELSE UrlLen(v)

\* _truncate_value on a string or a number: the first MAX_VALUE_LENGTH
\* characters of a long string (txt stays) and the suffix that names its length
TruncateString(v) ==
  IF "num" \in DOMAIN v THEN v
  ELSE IF ValueLen(v) > MAX_VALUE_LENGTH
  THEN [txt |-> IF "n" \in DOMAIN v THEN v.txt ELSE v,
        n |-> MAX_VALUE_LENGTH + SuffixLen(ValueLen(v)), ann |-> ValueLen(v)]
  ELSE v

\* value[:5] and list(value.items())[:5]
FirstItems(items) ==
  SubSeq(items, 1, IF Len(items) < MAX_ITEMS THEN Len(items) ELSE MAX_ITEMS)

\* _truncate_value: a list is [list |-> its items], a dict is [dict |-> its
\* items in insertion order, each a key k and a value v]
RECURSIVE TruncateValue(_)
TruncateValue(v) ==
  IF "list" \in DOMAIN v
  THEN [list |-> [i \in DOMAIN FirstItems(v.list) |-> TruncateValue(v.list[i])]]
  ELSE IF "dict" \in DOMAIN v
  THEN [dict |-> [i \in DOMAIN FirstItems(v.dict) |->
                    [k |-> v.dict[i].k, v |-> TruncateValue(v.dict[i].v)]]]
  ELSE TruncateString(v)

\* the paths _should_skip_path turns down
SkippedPaths == { p \in LeafPaths : ShouldSkipPath(p) }

\* the changes map of process(): path -> truncated new value
Changes(ref, ev) ==
  [ p \in ValuesChanged(ref, ev) \ SkippedPaths |-> TruncateValue(Leaf(ev, p)) ]

\* _simplify_event (the model's events carry no initiator)
SimplifyEvent(ev) ==
  [ requestId |-> ev.requestId, method |-> ev.request.method,
    url |-> SimplifyUrl(ev.request.url), type |-> ev.type,
    headers |-> TruncateValue(ev.request.headers) ]

\* ------------------------------------------------------------ _log_event
\* (put_nowait on the wrong end, for the properties)
LogEventFront(st, logging, event_type, data) ==
  IF ~logging THEN st
  ELSE [ q |-> << [seq |-> st.n + 1, timestamp |-> now, type |-> event_type, data |-> data] >> \o st.q,
         n |-> st.n + 1 ]

\* st is the queue and the count of records put on it; logging is is_logging
\* as it stands when _log_event runs
LogEvent(st, logging, event_type, data) ==
  IF ~logging THEN st
  ELSE [ q |-> Append(st.q, [seq |-> st.n + 1, timestamp |-> now, type |-> event_type, data |-> data]),
         n |-> st.n + 1 ]

Q0 == [q |-> event_queue, n |-> n_emitted]


\* ------------------------------------------------------------- log files
\* _get_log_path: one path per prefix (the session id in the name is fixed
\* at construction); prefix 0 is no prefix
GetLogPath(prefix) == prefix + 1

Prefixes == 0..1

Paths == { GetLogPath(p) : p \in Prefixes }

\* ---------------------------------------------------------------- tasks
\* task.cancel(): a task that has not finished is marked; it ends the next
\* time it runs, at the await it stands at
CancelWriterKeeps(ws, i) == ws

CancelWriter(ws, i) ==
  IF i # 0 /\ ws[i] = "running" THEN [ws EXCEPT ![i] = "cancelled"] ELSE ws

\* (late, for the properties: the sleep was over when the cancel came)
CancelTimerNotOverdue(ts, i) ==
  IF i # 0 /\ ts[i].st \in {"created", "sleeping"}
          /\ ~(ts[i].st = "sleeping" /\ now >= ts[i].deadline)
  THEN [ts EXCEPT ![i].st = "cancelled"]
  ELSE ts

CancelTimerKeeps(ts, i) == ts

CancelTimer(ts, i) ==
  IF i # 0 /\ ts[i].st \in {"created", "sleeping"}
  THEN [ts EXCEPT ![i].st = "cancelled",
                  ![i].late = (ts[i].st = "sleeping" /\ now >= ts[i].deadline)]
  ELSE ts

LoopRunning == pc.at # "stopped"

Prompt == [at |-> "prompt", idx |-> 0, pages |-> << >>, was |-> FALSE]

Idle == [kind |-> "idle"]

\* ------------------------------------------------------- resource bundles
Pluralize(t) ==
  CASE t = "Stylesheet" -> "stylesheets"
    [] t = "Script" -> "scripts"
    [] t = "Image" -> "images"
    [] t = "Font" -> "fonts"
    [] t = "Media" -> "medias"
    [] t = "Manifest" -> "manifests"
    [] t = "Other" -> "others"

\* the keys of a dict filled in the order of s, in insertion order
RECURSIVE InsertionOrder(_)
InsertionOrder(s) ==
  IF s = << >> THEN << >>
  ELSE LET rest == InsertionOrder(SubSeq(s, 1, Len(s) - 1))
       IN IF s[Len(s)] \in Range(rest) THEN rest ELSE Append(rest, s[Len(s)])

\* by_tab_and_type[tab_id]: resource type -> the simplified URLs, in bundle order
ByType(bundle, tab_id) ==
  LET mine == SelectSeq(bundle, LAMBDA e : e.tab_id = tab_id)
      keys == { Pluralize(TypeOf(mine[i])) : i \in 1..Len(mine) }
  IN [ k \in keys |->
         LET ofk == SelectSeq(mine, LAMBDA e : Pluralize(TypeOf(e)) = k)
         IN [ i \in 1..Len(ofk) |-> SimplifyUrl(ofk[i].request.url) ] ]

BundleTabs(bundle) == InsertionOrder([i \in 1..Len(bundle) |-> bundle[i].tab_id])

\* the loop of _flush_bundle over the tabs: one _log_callback per tab
RECURSIVE EmitBundles(_, _, _, _)
EmitBundles(st, logging, bundle, tabs) ==
  IF tabs = << >> THEN st
  ELSE EmitBundles(
         LogEvent(st, logging, "RESOURCE_BUNDLE",
                  [tab_id |-> Head(tabs), by_type |-> ByType(bundle, Head(tabs))]),
         logging, bundle, Tail(tabs))

\* _flush_bundle, from the state st of the queue: the queue after it
FlushBundleNoGuard(st, logging, bundle) ==
  IF bundle = << >>
  THEN LogEvent(st, logging, "RESOURCE_BUNDLE", [tab_id |-> MainId, by_type |-> EmptyMap])
  ELSE EmitBundles(st, logging, bundle, BundleTabs(bundle))

FlushBundle(st, logging, bundle) ==
  IF bundle = << >> THEN st
  ELSE EmitBundles(st, logging, bundle, BundleTabs(bundle))

\* self._resource_bundle.clear()
ClearedBundleKeepsLast(bundle) == IF bundle = << >> THEN bundle ELSE << bundle[Len(bundle)] >>

ClearedBundle(bundle) == << >>

\* _bundle_timeout's sleep: when it ends
TimerDeadlineEarly(t) == t + BUNDLE_WINDOW - 1

TimerDeadline(t) == t + BUNDLE_WINDOW

\* -------------------------------------------------------------- trackers
\* PageTracker.__init__
NewTracker(page, page_id) ==
  [ page |-> page, page_id |-> page_id, listeners_attached |-> FALSE,
    navigation_listener_active |-> FALSE, main_frame_id |-> 0,
    console_on |-> FALSE, network_on |-> FALSE, network_enabled |-> FALSE,
    injected |-> FALSE, alive |-> TRUE,
    \* for the properties: blocked says the page was privileged when the
    \* listeners were attached; the counts are of _inject_scanner calls made
    \* by attach_listeners and by _handle_navigation, of the navigation
    \* events on the main frame to a URL that is not privileged, and of the
    \* PAGE_NAVIGATION records put on the queue
    blocked |-> FALSE, attach_injections |-> 0, nav_injections |-> 0, nav_main |-> 0,
    nav_records |-> 0 ]

\* attach_listeners: the calls of _inject_scanner it makes for a page that
\* is privileged (chrome://, chrome-extension://) or not
AttachInjectionsAlways(privileged) == 1

AttachInjections(privileged) == IF privileged THEN 0 ELSE 1

AttachFaults == {"none", "Runtime.enable", "Network.enable", "Page.enable", "Page.getFrameTree"}

\* PageTracker.attach_listeners with _inject_scanner: fail names the driver
\* call that raises ("none": none does), privileged says the page is a
\* chrome:// page, inject_ok that page.evaluate succeeds
AttachListeners(tr, fail, privileged, inject_ok) ==
  IF tr.listeners_attached THEN tr
  ELSE IF fail = "Runtime.enable" THEN tr
  ELSE IF fail = "Network.enable"
       THEN [tr EXCEPT !.console_on = TRUE, !.network_on = TRUE]
  ELSE IF fail \in {"Page.enable", "Page.getFrameTree"}
       THEN [tr EXCEPT !.console_on = TRUE, !.network_on = TRUE, !.network_enabled = TRUE]
  ELSE [tr EXCEPT !.console_on = TRUE, !.network_on = TRUE, !.network_enabled = TRUE,
                  !.main_frame_id = tr.page, !.navigation_listener_active = TRUE,
                  !.injected = (AttachInjections(privileged) > 0 /\ inject_ok),
                  !.attach_injections = AttachInjections(privileged),
                  !.blocked = privileged,
                  !.listeners_attached = TRUE]

\* ------------------------------------------------------------------ Init
InitState ==
  /\ now = 0
  /\ pc = Prompt
  /\ is_logging = FALSE
  /\ log_file_path = 0
  /\ event_queue = << >>
  /\ files = [p \in Paths |-> << >>]
  /\ writers = << >>
  /\ log_writer_task = 0
  /\ reference_requests = EmptyMap
  /\ resource_bundle = << >>
  /\ bundle_timer = 0
  /\ timers = << >>
  /\ add_tasks = << >>
  /\ ui_click_timestamps = << >>
  /\ last_log_time = DATETIME_MIN
  /\ trackers = << >>
  /\ page_trackers = EmptyMap
  /\ page_listener_active = FALSE
  /\ page_listeners = 0
  /\ new_page_tasks = << >>
  /\ nav_tasks = << >>
  /\ scanner = [ts |-> << >>, last |-> DATETIME_MIN, queue |-> << >>, accepted |-> << >>]
  /\ n_emitted = 0
  /\ hist = [ req_count |-> EmptyMap, first_event |-> EmptyMap, last_add |-> EmptyMap,
              written |-> << >>, paused_emitted |-> FALSE, stop_pending |-> {},
              stopped_by |-> "", accepted |-> << >>, seen_logging |-> {},
              assigned |-> {}, overwritten |-> FALSE, lost |-> << >>,
              first_add |-> 0, derived |-> << >>,
              new_tab |-> << >> ]

InitCommon == InitState /\ obs = Idle

\* EventDrivenMonitor(port, track_all_tabs=False), connected to a browser
\* with one page
Init ==
  /\ InitCommon
  /\ track_all_tabs = FALSE
  /\ context_pages = << 1 >>
  /\ budget = [events |-> 0, cmds |-> 0, pages |-> 1, faults |-> 0, navs |-> 0]

\* either mode, connected to a browser with one page
InitTabs ==
  /\ InitCommon
  /\ track_all_tabs \in BOOLEAN
  /\ context_pages = << 1 >>
  /\ budget = [events |-> 0, cmds |-> 0, pages |-> 1, faults |-> 0, navs |-> 0]

\* either mode, connected to a browser with two pages
InitTwoPages ==
  /\ InitCommon
  /\ track_all_tabs \in BOOLEAN
  /\ context_pages = << 1, 2 >>
  /\ budget = [events |-> 0, cmds |-> 0, pages |-> 2, faults |-> 0, navs |-> 0]

Spend(what) == budget' = [budget EXCEPT ![what] = @ + 1]

\* ---------------------------------------------------- the finally of start()
\* the writer is cancelled, shutdown() cancels the timer and flushes, and the
\* main task waits for the disconnect; why: what ended the loop
Finally(why) ==
  LET st == FlushBundle(Q0, is_logging, resource_bundle)
  IN /\ writers' = CancelWriter(writers, log_writer_task)
     /\ timers' = CancelTimer(timers, bundle_timer)
     /\ event_queue' = st.q
     /\ n_emitted' = st.n
     /\ resource_bundle' = ClearedBundle(resource_bundle)
     /\ bundle_timer' = IF resource_bundle = << >> THEN bundle_timer ELSE 0
     /\ pc' = [Prompt EXCEPT !.at = "disconnecting"]
     /\ hist' = [hist EXCEPT
                   !.stop_pending = Range(resource_bundle) \cup Range(add_tasks),
                   !.stopped_by = why,
                   !.paused_emitted = @ \/ (is_logging /\ \E e \in Range(resource_bundle) : ~e.while_logging)]
     /\ obs' = [kind |-> "flush", by |-> "shutdown", at |-> now, logging |-> is_logging,
                bundle |-> resource_bundle, last_add |-> hist.last_add,
                records |-> SubSeq(st.q, Len(event_queue) + 1, Len(st.q))]

\* ------------------------------------------------------ _ensure_listeners
\* the index of the first page from idx on that has no tracker under
\* "tab-<index>"; Len(pages) when there is none
RECURSIVE FirstUntracked(_, _, _)
FirstUntracked(pages, idx, pt) ==
  IF idx >= Len(pages) THEN Len(pages)
  ELSE IF idx \notin DOMAIN pt THEN idx
  ELSE FirstUntracked(pages, idx + 1, pt)

\* whether _ensure_listeners reaches a driver call (an await) at all
EnsureAwaits ==
  \/ context_pages = << >>
  \/ IF track_all_tabs
     THEN FirstUntracked(context_pages, 0, page_trackers) < Len(context_pages)
     ELSE MainId \notin DOMAIN page_trackers

\* `if not self._page_listener_active` before context.on("page", ...)
RegistersPageListenerAlways(active) == TRUE

RegistersPageListener(active) == ~active

\* the end of _setup_multi_tab_tracking, when it is reached
PageListener(reached) ==
  /\ page_listener_active' = (page_listener_active \/ reached)
  /\ page_listeners' = IF reached /\ RegistersPageListener(page_listener_active)
                        THEN page_listeners + 1
                        ELSE page_listeners

\* the command loop enters _ensure_listeners: it stops at the first driver
\* call, or runs through when every page has its tracker
EnsureStart ==
  /\ pc' = IF EnsureAwaits
           THEN [Prompt EXCEPT !.at = "ensure", !.pages = context_pages,
                               !.idx = FirstUntracked(context_pages, 0, page_trackers)]
           ELSE Prompt
  /\ PageListener(track_all_tabs /\ ~EnsureAwaits)

\* _setup_single_tab_tracking from its await on: session_ok says
\* new_cdp_session returns; what it raises is caught nowhere before the
\* finally of start()
SetupSingleTabTracking(session_ok, fail, privileged, inject_ok) ==
  /\ pc.at = "ensure"
  /\ ~track_all_tabs
  /\ IF context_pages = << >> \/ ~session_ok
     THEN /\ Finally(IF context_pages = << >> THEN "no_connection" ELSE "driver_fault")
          /\ UNCHANGED << trackers, page_trackers >>
     ELSE /\ trackers' = Append(trackers,
                AttachListeners(NewTracker(context_pages[1], MainId), fail, privileged, inject_ok))
          /\ page_trackers' = (MainId :> (Len(trackers) + 1)) @@ page_trackers
          /\ pc' = Prompt
          /\ obs' = Idle
          /\ hist' = [hist EXCEPT !.assigned = @ \cup { << context_pages[1], MainId >> }]
          /\ UNCHANGED << writers, timers, event_queue, n_emitted, resource_bundle, bundle_timer >>
  /\ UNCHANGED << now, track_all_tabs, is_logging, log_file_path, files, log_writer_task,
                  dedupVars, add_tasks, clickVars, page_listener_active, page_listeners, context_pages,
                  new_page_tasks, nav_tasks, scanner, budget >>

\* _setup_multi_tab_tracking from the await for page pc.idx on, to the next
\* await or to the end; the try around a page catches what its calls raise
SetupMultiTabTracking(session_ok, fail, privileged, inject_ok) ==
  /\ pc.at = "ensure"
  /\ track_all_tabs
  /\ IF context_pages = << >>
     THEN /\ Finally("no_connection")
          /\ UNCHANGED << trackers, page_trackers, page_listener_active, page_listeners >>
     ELSE LET page_id == pc.idx
              page == pc.pages[pc.idx + 1]
              pt == IF session_ok THEN (page_id :> (Len(trackers) + 1)) @@ page_trackers
                    ELSE page_trackers
              nxt == FirstUntracked(pc.pages, page_id + 1, pt)
          IN /\ trackers' = IF session_ok
                            THEN Append(trackers,
                                   AttachListeners(NewTracker(page, page_id), fail, privileged, inject_ok))
                            ELSE trackers
             /\ page_trackers' = pt
             /\ pc' = IF nxt < Len(pc.pages) THEN [pc EXCEPT !.idx = nxt] ELSE Prompt
             /\ PageListener(nxt >= Len(pc.pages))
             /\ hist' = [hist EXCEPT
                           !.assigned = IF session_ok THEN @ \cup { << page, page_id >> } ELSE @,
                           !.overwritten = @ \/ (session_ok /\ page_id \in DOMAIN page_trackers)]
             /\ obs' = Idle
             /\ UNCHANGED << writers, timers, event_queue, n_emitted, resource_bundle, bundle_timer >>
  /\ UNCHANGED << now, track_all_tabs, is_logging, log_file_path, files, log_writer_task,
                  dedupVars, add_tasks, clickVars, context_pages, new_page_tasks, nav_tasks,
                  scanner, budget >>

\* ------------------------------------------------------------- commands
\* _start_new_log_file
StartNewLogFile(prefix) ==
  LET st == LogEvent(Q0, TRUE, "SESSION_START",
                     [log_file |-> GetLogPath(prefix), track_all_tabs |-> track_all_tabs])
  IN /\ log_file_path' = GetLogPath(prefix)
     /\ is_logging' = TRUE
     /\ writers' = Append(CancelWriter(writers, log_writer_task), "running")
     /\ log_writer_task' = Len(writers) + 1
     /\ event_queue' = st.q
     /\ n_emitted' = st.n

CanCommand == pc.at = "prompt" /\ budget.cmds < MaxCmds

\* run [prefix]
CmdRun(prefix) ==
  /\ CanCommand
  /\ IF log_file_path = 0
     THEN StartNewLogFile(prefix)
     ELSE /\ is_logging' = TRUE
          /\ UNCHANGED << log_file_path, writers, log_writer_task, event_queue, n_emitted >>
  /\ EnsureStart
  /\ Spend("cmds")
  /\ obs' = Idle
  /\ UNCHANGED << now, track_all_tabs, files, dedupVars, bundleVars, clickVars, trackers,
                  page_trackers, context_pages, new_page_tasks, nav_tasks, scanner, hist >>

\* wait
CmdWait ==
  /\ CanCommand
  /\ is_logging' = FALSE
  /\ Spend("cmds")
  /\ obs' = Idle
  /\ UNCHANGED << now, pc, track_all_tabs, log_file_path, event_queue, n_emitted,
                  writerVars, dedupVars, bundleVars, clickVars, tabVars, scanner, hist >>

\* new [prefix]
CmdNew(prefix) ==
  /\ CanCommand
  /\ StartNewLogFile(prefix)
  /\ EnsureStart
  /\ Spend("cmds")
  /\ obs' = [kind |-> "new", prefix |-> prefix, before |-> log_file_path]
  /\ UNCHANGED << now, track_all_tabs, files, dedupVars, bundleVars, clickVars, trackers,
                  page_trackers, context_pages, new_page_tasks, nav_tasks, scanner, hist >>

\* connect <port>: _reconnect up to its await of the disconnect
CmdConnect ==
  /\ CanCommand
  /\ is_logging' = FALSE
  /\ pc' = [Prompt EXCEPT !.at = "reconnect_disconnect", !.was = is_logging]
  /\ Spend("cmds")
  /\ obs' = Idle
  /\ UNCHANGED << now, track_all_tabs, log_file_path, event_queue, n_emitted,
                  writerVars, dedupVars, bundleVars, clickVars, tabVars, scanner, hist >>

\* the old connection is closed: the trackers are dropped, and _reconnect
\* awaits the new connection
ReconnectDisconnected ==
  /\ pc.at = "reconnect_disconnect"
  /\ page_trackers' = EmptyMap
  /\ page_listener_active' = FALSE
  /\ page_listeners' = 0
  /\ trackers' = [i \in 1..Len(trackers) |-> [trackers[i] EXCEPT !.alive = FALSE]]
  /\ context_pages' = << >>
  /\ pc' = [pc EXCEPT !.at = "reconnect_connect"]
  /\ obs' = Idle
  /\ UNCHANGED << now, track_all_tabs, is_logging, log_file_path, event_queue, n_emitted,
                  writerVars, dedupVars, bundleVars, clickVars, new_page_tasks, nav_tasks,
                  scanner, budget, hist >>

\* connect() returns: ok says whether the new browser was reached
ReconnectConnected(ok) ==
  /\ pc.at = "reconnect_connect"
  /\ IF ok
     THEN /\ budget.pages < MaxPages
          /\ context_pages' = << budget.pages + 1 >>
          /\ Spend("pages")
          /\ is_logging' = pc.was
          /\ IF pc.was
             THEN pc' = [Prompt EXCEPT !.at = "ensure", !.pages = context_pages',
                                       !.was = TRUE]
             ELSE pc' = Prompt
     ELSE /\ pc' = Prompt
          /\ UNCHANGED << context_pages, budget, is_logging >>
  /\ obs' = Idle
  /\ UNCHANGED << now, track_all_tabs, log_file_path, event_queue, n_emitted,
                  writerVars, dedupVars, bundleVars, clickVars, trackers, page_trackers,
                  page_listener_active, page_listeners, new_page_tasks, nav_tasks, scanner, hist >>

\* quit: the loop breaks and the finally of start() runs
CmdQuit ==
  /\ pc.at = "prompt"
  /\ Finally("quit")
  /\ UNCHANGED << now, track_all_tabs, is_logging, log_file_path, files, log_writer_task,
                  dedupVars, add_tasks, clickVars, tabVars, scanner, budget >>

\* the disconnect is over and asyncio.run() closes the loop: every task left
\* is cancelled and none runs its code again
Disconnected ==
  /\ pc.at = "disconnecting"
  /\ pc' = [Prompt EXCEPT !.at = "stopped"]
  /\ writers' = [i \in 1..Len(writers) |-> IF writers[i] \in {"running", "cancelled"} THEN "done" ELSE writers[i]]
  /\ timers' = [i \in 1..Len(timers) |-> [timers[i] EXCEPT !.st = "done"]]
  /\ add_tasks' = << >>
  /\ new_page_tasks' = << >>
  /\ nav_tasks' = << >>
  /\ trackers' = [i \in 1..Len(trackers) |-> [trackers[i] EXCEPT !.alive = FALSE]]
  /\ obs' = Idle
  /\ UNCHANGED << now, track_all_tabs, is_logging, log_file_path, event_queue, n_emitted,
                  files, log_writer_task, dedupVars, resource_bundle, bundle_timer,
                  clickVars, page_trackers, page_listener_active, page_listeners, context_pages, scanner,
                  budget, hist >>

\* ------------------------------------------------ NetworkDeduplicator.process
\* the reference table after process() has seen ev under fingerprint fp
NextReferencesOverwrite(refs, fp, ev) == (fp :> ev) @@ refs

NextReferences(refs, fp, ev) ==
  IF fp \in DOMAIN refs THEN refs ELSE (fp :> ev) @@ refs

\* PageTracker._handle_network_request and process(): tracker t receives raw
\* (limit bounds the number of requests of a run)
\* (for the properties: which raw event, by its tab and its number in the
\* order of delivery, each record of process() was derived from)
Derived(derived, ev, st) ==
  IF st.n > n_emitted
  THEN Append(derived, [tab |-> ev.tab_id, arrival |-> budget.events + 1, seq |-> st.n])
  ELSE derived

NetworkRequest(t, raw, limit) ==
  /\ LoopRunning
  /\ budget.events < limit
  /\ t \in 1..Len(trackers)
  /\ trackers[t].alive /\ trackers[t].network_on /\ trackers[t].network_enabled
  /\ LET ev == [raw EXCEPT !.tab_id = trackers[t].page_id, !.while_logging = is_logging]
         fp == Fingerprint(ev.tab_id, ev.request.method, ev.request.url)
     IN IF TypeOf(ev) \in BUNDLED_TYPES
        THEN /\ add_tasks' = Append(add_tasks, ev)
             /\ obs' = [kind |-> "process", bundled |-> TRUE, ev |-> ev, records |-> << >>]
             /\ UNCHANGED << reference_requests, event_queue, n_emitted, hist >>
        ELSE IF fp \notin DOMAIN reference_requests
        THEN LET st == LogEvent(Q0, is_logging, "NETWORK_REQUEST",
                                SimplifyEvent(ev) @@ [tab_id |-> ev.tab_id])
             IN /\ reference_requests' = NextReferences(reference_requests, fp, ev)
                /\ event_queue' = st.q
                /\ n_emitted' = st.n
                /\ hist' = [hist EXCEPT
                              !.req_count = (fp :> (IF is_logging THEN 1 ELSE 0)) @@ @,
                              !.first_event = (fp :> ev) @@ @,
                              !.seen_logging = IF is_logging THEN @ \cup {fp} ELSE @,
                              !.derived = Derived(@, ev, st)]
                /\ obs' = [kind |-> "process", bundled |-> FALSE, ev |-> ev, fp |-> fp,
                           first |-> TRUE, logging |-> is_logging,
                           records |-> SubSeq(st.q, Len(event_queue) + 1, Len(st.q))]
                /\ UNCHANGED add_tasks
        ELSE LET changes == Changes(reference_requests[fp], ev)
                 st == IF changes # EmptyMap
                       THEN LogEvent(Q0, is_logging, "NETWORK_DIFF",
                                     [fingerprint |-> fp, tab_id |-> ev.tab_id,
                                      method |-> ev.request.method,
                                      url |-> SimplifyUrl(ev.request.url),
                                      changes |-> changes])
                       ELSE Q0
             IN /\ reference_requests' = NextReferences(reference_requests, fp, ev)
                /\ event_queue' = st.q
                /\ n_emitted' = st.n
                /\ obs' = [kind |-> "process", bundled |-> FALSE, ev |-> ev, fp |-> fp,
                           first |-> FALSE, logging |-> is_logging,
                           ref |-> reference_requests[fp],
                           records |-> SubSeq(st.q, Len(event_queue) + 1, Len(st.q))]
                /\ hist' = [hist EXCEPT
                              !.seen_logging = IF is_logging THEN @ \cup {fp} ELSE @,
                              !.derived = Derived(@, ev, st)]
                /\ UNCHANGED add_tasks
  /\ Spend("events")
  /\ UNCHANGED << now, pc, track_all_tabs, is_logging, log_file_path, writerVars,
                  resource_bundle, bundle_timer, timers, clickVars, tabVars, scanner >>

\* ------------------------------------------------------ the bundle tasks
\* self._resource_bundle.append(event)
BundleAddFront(bundle, ev) == << ev >> \o bundle

BundleAdd(bundle, ev) == Append(bundle, ev)

\* _add_to_bundle: the oldest add task runs (tasks start in creation order)
AddToBundle ==
  /\ LoopRunning
  /\ add_tasks # << >>
  /\ resource_bundle' = BundleAdd(resource_bundle, Head(add_tasks))
  /\ add_tasks' = Tail(add_tasks)
  /\ timers' = Append(CancelTimer(timers, bundle_timer), [st |-> "created", deadline |-> 0, late |-> FALSE])
  /\ bundle_timer' = Len(timers) + 1
  /\ hist' = [hist EXCEPT !.last_add = (Head(add_tasks).tab_id :> now) @@ @,
                           !.first_add = IF resource_bundle = << >> THEN now ELSE @]
  /\ obs' = Idle
  /\ UNCHANGED << now, pc, track_all_tabs, is_logging, log_file_path, event_queue,
                  n_emitted, writerVars, dedupVars, clickVars, tabVars, scanner, budget >>

\* _bundle_timeout starts and goes to sleep
BundleTimeoutSleep(i) ==
  /\ LoopRunning
  /\ i \in 1..Len(timers)
  /\ timers[i].st = "created"
  /\ timers' = [timers EXCEPT ![i] = [st |-> "sleeping", deadline |-> TimerDeadline(now), late |-> FALSE]]
  /\ obs' = Idle
  /\ UNCHANGED << now, pc, track_all_tabs, is_logging, log_file_path, event_queue,
                  n_emitted, writerVars, dedupVars, resource_bundle, bundle_timer,
                  add_tasks, clickVars, tabVars, scanner, budget, hist >>

\* the sleep is over: _flush_bundle
BundleTimeoutFlush(i) ==
  /\ LoopRunning
  /\ i \in 1..Len(timers)
  /\ timers[i].st = "sleeping"
  /\ now >= timers[i].deadline
  /\ LET st == FlushBundle(Q0, is_logging, resource_bundle)
     IN /\ event_queue' = st.q
        /\ n_emitted' = st.n
        /\ obs' = [kind |-> "flush", by |-> "timer", at |-> now, logging |-> is_logging,
                   timer |-> i, current |-> bundle_timer, n_timers |-> Len(timers),
                   bundle |-> resource_bundle, last_add |-> hist.last_add,
                   records |-> SubSeq(st.q, Len(event_queue) + 1, Len(st.q))]
  /\ timers' = [timers EXCEPT ![i].st = "done"]
  /\ resource_bundle' = ClearedBundle(resource_bundle)
  /\ bundle_timer' = IF resource_bundle = << >> THEN bundle_timer ELSE 0
  /\ hist' = [hist EXCEPT
                !.paused_emitted = @ \/ (is_logging /\ \E e \in Range(resource_bundle) : ~e.while_logging)]
  /\ UNCHANGED << now, pc, track_all_tabs, is_logging, log_file_path, writerVars,
                  dedupVars, add_tasks, clickVars, tabVars, scanner, budget >>

\* a cancelled _bundle_timeout runs once more: CancelledError, pass
BundleTimeoutCancelled(i) ==
  /\ LoopRunning
  /\ i \in 1..Len(timers)
  /\ timers[i].st = "cancelled"
  /\ timers' = [timers EXCEPT ![i].st = "done"]
  /\ obs' = Idle
  /\ UNCHANGED << now, pc, track_all_tabs, is_logging, log_file_path, event_queue,
                  n_emitted, writerVars, dedupVars, resource_bundle, bundle_timer,
                  add_tasks, clickVars, tabVars, scanner, budget, hist >>

\* ------------------------------------------------------------ _log_writer
\* which record get() hands the writer
NextRecordLast(q) == q[Len(q)]

NextRecord(q) == Head(q)

\* one turn of the loop: get() returns and the line is written
LogWriterWrite(i) ==
  /\ LoopRunning
  /\ i \in 1..Len(writers)
  /\ writers[i] = "running"
  /\ event_queue # << >>
  /\ LET rec == NextRecord(event_queue)
     IN /\ files' = [files EXCEPT ![log_file_path] = Append(@, rec)]
        /\ hist' = [hist EXCEPT !.written = Append(@, rec.seq)]
        /\ event_queue' = SelectSeq(event_queue, LAMBDA r : r.seq # rec.seq)
  /\ obs' = Idle
  /\ UNCHANGED << now, pc, track_all_tabs, is_logging, log_file_path, n_emitted, writers,
                  log_writer_task, dedupVars, bundleVars, clickVars, tabVars, scanner, budget >>

\* what an exception of open() or write() leaves of the writer task and of
\* the command loop: the exception is not caught in _log_writer, the task
\* ends with it, and nothing awaits the task
WriteFailureStopsLoop(state) == [writer |-> "failed", pc |-> [state.pc EXCEPT !.at = "stopped"]]

WriteFailure(state) == [writer |-> "failed", pc |-> state.pc]

\* the queue after a get() that ends with CancelledError
CancelledGetTakes(q) == IF q = << >> THEN q ELSE Tail(q)

CancelledGet(q) == q

\* open() or write() raises: the record is gone and the task ends
LogWriterWriteFails(i) ==
  /\ LoopRunning
  /\ i \in 1..Len(writers)
  /\ writers[i] = "running"
  /\ event_queue # << >>
  /\ budget.faults < 1
  /\ writers' = [writers EXCEPT ![i] = WriteFailure([pc |-> pc]).writer]
  /\ pc' = WriteFailure([pc |-> pc]).pc
  /\ event_queue' = SelectSeq(event_queue, LAMBDA r : r.seq # NextRecord(event_queue).seq)
  /\ hist' = [hist EXCEPT !.lost = Append(@, NextRecord(event_queue).seq)]
  /\ Spend("faults")
  /\ obs' = [kind |-> "write_failed", writer |-> i, record |-> NextRecord(event_queue)]
  /\ UNCHANGED << now, track_all_tabs, is_logging, log_file_path, n_emitted, files,
                  log_writer_task, dedupVars, bundleVars, clickVars, tabVars, scanner >>

\* a cancelled writer runs once more: CancelledError at get(), break
LogWriterCancelled(i) ==
  /\ LoopRunning
  /\ i \in 1..Len(writers)
  /\ writers[i] = "cancelled"
  /\ writers' = [writers EXCEPT ![i] = "done"]
  /\ event_queue' = CancelledGet(event_queue)
  /\ obs' = [kind |-> "writer_cancelled", writer |-> i, queue |-> event_queue]
  /\ UNCHANGED << now, pc, track_all_tabs, is_logging, log_file_path,
                  n_emitted, files, log_writer_task, dedupVars, bundleVars, clickVars,
                  tabVars, scanner, budget, hist >>

\* ------------------------------------------------------------- the clock
\* a task that can run now: the loop runs it before it waits for a timer
ReadyTask ==
  \/ add_tasks # << >>
  \/ \E i \in 1..Len(timers) :
       \/ timers[i].st \in {"created", "cancelled"}
       \/ timers[i].st = "sleeping" /\ now >= timers[i].deadline
  \/ \E i \in 1..Len(writers) :
       \/ writers[i] = "cancelled"
       \/ writers[i] = "running" /\ event_queue # << >>

\* time passes, d units or up to the next timer when that is sooner
Tick(d, limit) ==
  /\ LoopRunning
  /\ now + d <= limit
  /\ ~ReadyTask
  /\ LET due == { timers[i].deadline : i \in { j \in 1..Len(timers) : timers[j].st = "sleeping" } }
     IN now' = IF \E x \in due : x < now + d
               THEN CHOOSE x \in due : \A y \in due : x <= y
               ELSE now + d
  /\ obs' = Idle
  /\ UNCHANGED << pc, track_all_tabs, is_logging, log_file_path, event_queue, n_emitted,
                  writerVars, dedupVars, bundleVars, clickVars, tabVars, scanner, budget, hist >>

\* ------------------------------------------------------- the click limiter
\* now - last_log_time < MICRO_DEBOUNCE_WINDOW
DebouncedInclusive(last, t) == t - last <= MICRO_DEBOUNCE_WINDOW

Debounced(last, t) == t - last < MICRO_DEBOUNCE_WINDOW

\* while window and window[0] < now - RATE_LIMIT_WINDOW: popleft()
\* `self._ui_click_timestamps[0] < now - self.RATE_LIMIT_WINDOW`
StaleNever(entry, t) == FALSE

Stale(entry, t) == entry < t - RATE_LIMIT_WINDOW

RECURSIVE PopOld(_, _)
PopOld(window, t) ==
  IF window # << >> /\ Stale(Head(window), t)
  THEN PopOld(Tail(window), t)
  ELSE window

\* len(window) >= RATE_LIMIT_COUNT
WindowFullOff(window) == Len(window) > RATE_LIMIT_COUNT

WindowFull(window) == Len(window) >= RATE_LIMIT_COUNT

\* What a Runtime.consoleAPICalled event can carry: no args, a first
\* argument without a value, a value that is no string, the test message,
\* some other string, and the marker followed by a JSON object ("ok"), by
\* text that is no JSON ("bad_json") or by JSON that is no object ("non_object")
Payloads == {"no_args", "no_value", "non_string", "test", "other_string",
             "ok", "bad_json", "non_object"}

MarkerPayloads == {"ok", "bad_json", "non_object"}

\* the exception the handler's code raises on the payload, once it gets
\* there: value.startswith on a non-string, json.loads, data['tab_id'] = ...
Raises(payload) ==
  CASE payload = "non_string" -> "AttributeError"
    [] payload = "bad_json" -> "JSONDecodeError"
    [] payload = "non_object" -> "TypeError"
    [] OTHER -> "none"

\* except (KeyError, IndexError, json.JSONDecodeError)
Caught(exc) == exc \in {"KeyError", "IndexError", "JSONDecodeError"}

\* self.monitor._last_log_time as the handler of the tracker of tab_id reads
\* it: the one field of the monitor
LastLogTimeOfSession(tab_id) ==
  LET own == SelectSeq(hist.accepted, LAMBDA a : a.tab = tab_id)
  IN IF own = << >> THEN DATETIME_MIN ELSE own[Len(own)].at

LastLogTime(tab_id) == last_log_time

\* PageTracker._handle_console_api on an event of tracker t with that payload
HandleConsoleApi(t, payload) ==
  /\ LoopRunning
  /\ t \in 1..Len(trackers)
  /\ trackers[t].alive /\ trackers[t].console_on
  /\ payload \in MarkerPayloads => trackers[t].injected
  /\ IF payload \notin MarkerPayloads
     THEN /\ obs' = [kind |-> "console", payload |-> payload, records |-> << >>,
                     raised |-> (Raises(payload) # "none" /\ ~Caught(Raises(payload)))]
          /\ UNCHANGED << ui_click_timestamps, last_log_time, event_queue, n_emitted, hist >>
     ELSE IF Debounced(LastLogTime(trackers[t].page_id), now)
     THEN /\ obs' = [kind |-> "click", at |-> now, tab |-> trackers[t].page_id, accepted |-> FALSE, why |-> "debounce",
                     payload |-> payload, records |-> << >>, raised |-> FALSE]
          /\ UNCHANGED << ui_click_timestamps, last_log_time, event_queue, n_emitted, hist >>
     ELSE IF WindowFull(PopOld(ui_click_timestamps, now))
     THEN /\ ui_click_timestamps' = PopOld(ui_click_timestamps, now)
          /\ obs' = [kind |-> "click", at |-> now, tab |-> trackers[t].page_id, accepted |-> FALSE, why |-> "count",
                     payload |-> payload, records |-> << >>, raised |-> FALSE]
          /\ UNCHANGED << last_log_time, event_queue, n_emitted, hist >>
     ELSE LET st == IF Raises(payload) = "none"
                    THEN LogEvent(Q0, is_logging, "UI_CLICK",
                                  [tab_id |-> trackers[t].page_id, element_path |-> "path"])
                    ELSE Q0
          IN /\ ui_click_timestamps' = Append(PopOld(ui_click_timestamps, now), now)
             /\ last_log_time' = now
             /\ event_queue' = st.q
             /\ n_emitted' = st.n
             /\ hist' = [hist EXCEPT !.accepted = Append(@, [at |-> now, tab |-> trackers[t].page_id])]
             /\ obs' = [kind |-> "click", at |-> now, tab |-> trackers[t].page_id, accepted |-> TRUE, why |-> "",
                        payload |-> payload,
                        records |-> SubSeq(st.q, Len(event_queue) + 1, Len(st.q)),
                        raised |-> (Raises(payload) # "none" /\ ~Caught(Raises(payload))),
                        logged |-> Len(st.q) > Len(event_queue)]
  /\ UNCHANGED << now, pc, track_all_tabs, is_logging, log_file_path, writerVars,
                  dedupVars, bundleVars, tabVars, budget >>

\* UIScanner.process_event (src/ui_scanner.py) on the same kind of message:
\* its own window, its own last time, its own queue, no logging flag
UIScannerProcessEvent(payload_ok) ==
  IF Debounced(scanner.last, now)
  THEN scanner' = scanner
  ELSE IF WindowFull(PopOld(scanner.ts, now))
  THEN scanner' = [scanner EXCEPT !.ts = PopOld(scanner.ts, now)]
  ELSE scanner' = [scanner EXCEPT
                     !.ts = Append(PopOld(scanner.ts, now), now),
                     !.last = now,
                     !.accepted = Append(@, now),
                     !.queue = IF payload_ok
                               THEN Append(@, [timestamp |-> now, type |-> "UI_CLICK"])
                               ELSE @]

\* ------------------------------------------------------------- new pages
\* the browser opens a page; for every "page" subscription on the context a
\* _handle_new_page starts, takes its page_id from the size of the registry
\* and goes to sleep
NewPage ==
  /\ LoopRunning
  /\ context_pages # << >>
  /\ budget.pages < MaxPages
  /\ context_pages' = Append(context_pages, budget.pages + 1)
  /\ new_page_tasks' =
       new_page_tasks \o
         [i \in 1..page_listeners |->
            [page |-> budget.pages + 1, page_id |-> Cardinality(DOMAIN page_trackers)]]
  /\ Spend("pages")
  /\ obs' = Idle
  /\ UNCHANGED << now, pc, track_all_tabs, is_logging, log_file_path, event_queue,
                  n_emitted, writerVars, dedupVars, bundleVars, clickVars, trackers,
                  page_trackers, page_listener_active, page_listeners, nav_tasks, scanner, hist >>

\* _handle_new_page after its sleep (the handlers wake in the order they
\* went to sleep): ok says title() and new_cdp_session return
HandleNewPage(ok, fail, privileged, inject_ok) ==
  /\ LoopRunning
  /\ new_page_tasks # << >>
  /\ LET task == Head(new_page_tasks)
         tr == NewTracker(task.page, task.page_id)
         st == LogEvent(Q0, is_logging, "NEW_TAB_OPENED",
                        [tab_id |-> task.page_id, url |-> task.page, title |-> task.page])
     IN IF ok
        THEN /\ trackers' = Append(trackers,
                              IF is_logging
                              THEN AttachListeners(tr, fail, privileged, inject_ok)
                              ELSE tr)
             /\ page_trackers' = (task.page_id :> (Len(trackers) + 1)) @@ page_trackers
             /\ event_queue' = st.q
             /\ n_emitted' = st.n
             /\ hist' = [hist EXCEPT
                           !.assigned = @ \cup { << task.page, task.page_id >> },
                           !.overwritten = @ \/ task.page_id \in DOMAIN page_trackers,
                           !.new_tab = IF is_logging THEN Append(@, task.page) ELSE @]
             /\ obs' = [kind |-> "new_page", ok |-> TRUE, logging |-> is_logging,
                        page_id |-> task.page_id,
                        tracker |-> trackers'[Len(trackers')],
                        records |-> SubSeq(st.q, Len(event_queue) + 1, Len(st.q))]
        ELSE /\ obs' = [kind |-> "new_page", ok |-> FALSE, logging |-> is_logging,
                        page_id |-> task.page_id, tracker |-> tr, records |-> << >>]
             /\ UNCHANGED << trackers, page_trackers, event_queue, n_emitted, hist >>
  /\ new_page_tasks' = Tail(new_page_tasks)
  /\ UNCHANGED << now, pc, track_all_tabs, is_logging, log_file_path, writerVars,
                  dedupVars, bundleVars, clickVars, page_listener_active, page_listeners, context_pages,
                  nav_tasks, scanner, budget >>

\* ------------------------------------------------------------ navigation
\* The frames a Page.frameNavigated event of tracker tr can name: the main
\* frame as getFrameTree gave it, a main frame under a new id, a child frame
\* (0 is an absent parentId)
Frames(tr) ==
  { [id |-> tr.main_frame_id, parentId |-> 0],
    [id |-> tr.main_frame_id + 100, parentId |-> 0],
    [id |-> tr.main_frame_id + 200, parentId |-> tr.main_frame_id] }

\* is_main_frame
IsMainFrameAny(frame, main_frame_id) == TRUE

IsMainFrame(frame, main_frame_id) == frame.parentId = 0 \/ frame.id = main_frame_id

\* _handle_navigation up to its sleep: tracker t gets a frameNavigated event
\* for that frame; privileged says the URL starts with chrome:// or
\* chrome-extension://
HandleNavigation(t, frame, privileged) ==
  /\ LoopRunning
  /\ budget.navs < MaxNavs
  /\ t \in 1..Len(trackers)
  /\ trackers[t].alive /\ trackers[t].navigation_listener_active
  /\ frame \in Frames(trackers[t])
  /\ LET main == frame.parentId = 0
         sleeps == IsMainFrame(frame, trackers[t].main_frame_id) /\ ~privileged
     IN /\ nav_tasks' = IF sleeps
                         THEN Append(nav_tasks, [t |-> t, url |-> budget.navs + 1,
                                                 while_logging |-> is_logging])
                         ELSE nav_tasks
        /\ trackers' = [trackers EXCEPT
                          \* a new document in the main frame: the old script is gone
                          ![t].injected = IF main THEN FALSE ELSE @,
                          ![t].nav_main = IF main /\ ~privileged THEN @ + 1 ELSE @]
        /\ obs' = [kind |-> "frame", t |-> t, main |-> main, privileged |-> privileged,
                   sleeps |-> sleeps]
  /\ Spend("navs")
  /\ UNCHANGED << now, pc, track_all_tabs, is_logging, log_file_path, event_queue,
                  n_emitted, writerVars, dedupVars, bundleVars, clickVars, page_trackers,
                  page_listener_active, page_listeners, context_pages, new_page_tasks, scanner, hist >>

\* _handle_navigation after its sleep (the handlers wake in the order they
\* went to sleep): _inject_scanner, whose exception is caught, and _log_event
NavigationSettled(inject_ok) ==
  /\ LoopRunning
  /\ nav_tasks # << >>
  /\ LET task == Head(nav_tasks)
         st == LogEvent(Q0, is_logging, "PAGE_NAVIGATION",
                        [url |-> task.url, tab_id |-> trackers[task.t].page_id])
     IN /\ trackers' = [trackers EXCEPT ![task.t].injected = inject_ok,
                                        ![task.t].nav_injections = @ + 1,
                                        ![task.t].nav_records = IF is_logging THEN @ + 1 ELSE @]
        /\ event_queue' = st.q
        /\ n_emitted' = st.n
        /\ hist' = [hist EXCEPT
                      !.paused_emitted = @ \/ (is_logging /\ ~task.while_logging)]
        /\ obs' = [kind |-> "navigation", task |-> task, logging |-> is_logging,
                   tab_id |-> trackers[task.t].page_id,
                   records |-> SubSeq(st.q, Len(event_queue) + 1, Len(st.q))]
  /\ nav_tasks' = Tail(nav_tasks)
  /\ UNCHANGED << now, pc, track_all_tabs, is_logging, log_file_path, writerVars,
                  dedupVars, bundleVars, clickVars, page_trackers, page_listener_active, page_listeners,
                  context_pages, new_page_tasks, scanner, budget >>

\* ------------------------------------------------------------- the inputs
\* requests that are logged one by one: a base request, and the same with
\* one field changed
BaseRequest == RawEvent(Str("r1", 2), Num(1), "XHR", Url("/api", << "foo=1" >>), "GET",
                        Str("json", 16), Str("p", 1))

\* the base request with another query and another value of its header
QueryAndHeaderChanged ==
  [BaseRequest EXCEPT !.request.url = Url("/api", << "foo=2" >>),
                      !.request.headers = Str("form", 33)]

DedupEvents ==
  { BaseRequest,
    [BaseRequest EXCEPT !.requestId = Str("r2", 2)],
    [BaseRequest EXCEPT !.wallTime = Num(2)],
    [BaseRequest EXCEPT !.request.postData = Str("q", 1)],
    [BaseRequest EXCEPT !.request.headers = Str("form", 33)],
    [BaseRequest EXCEPT !.request.url = Url("/api", << "foo=2" >>)],
    [BaseRequest EXCEPT !.request.url = Url("/b", << "foo=1" >>)],
    QueryAndHeaderChanged }

\* the k-th request after the first of a run with the writer: the base
\* request with yet another header value
WriterRequest(k) == [BaseRequest EXCEPT !.request.headers = Str("form", 32 + k)]

\* requests that are bundled
BundleEvents ==
  { RawEvent(Str("r1", 2), Num(1), "Stylesheet", Url(p, << >>), "GET", Str("json", 16), Str("p", 1)) :
      p \in {"/a.css", "/b.css"} }

\* ------------------------------------------------------- specifications
\* the resource bundler with its timer, the writer and the commands
Next ==
  \/ CmdRun(0)
  \/ CmdWait
  \/ CmdQuit
  \/ Disconnected
  \/ SetupSingleTabTracking(TRUE, "none", FALSE, TRUE)
  \/ \E t \in 1..Len(trackers), raw \in BundleEvents :
       NetworkRequest(t, raw, MaxPipeEvents)
  \/ AddToBundle
  \/ \E i \in 1..Len(timers) : BundleTimeoutSleep(i)
  \/ \E i \in 1..Len(timers) : BundleTimeoutFlush(i)
  \/ \E i \in 1..Len(timers) : BundleTimeoutCancelled(i)
  \/ \E i \in 1..Len(writers) : LogWriterWrite(i)
  \/ \E i \in 1..Len(writers) : LogWriterCancelled(i)
  \/ Tick(5, MaxTime)

Spec == Init /\ [][Next]_vars

\* the deduplicator under the commands, reconnects included
NextNet ==
  \/ CmdRun(0)
  \/ CmdWait
  \/ CmdConnect
  \/ ReconnectDisconnected
  \/ \E ok \in BOOLEAN : ReconnectConnected(ok)
  \/ SetupSingleTabTracking(TRUE, "none", FALSE, TRUE)
  \/ \E t \in 1..Len(trackers), raw \in DedupEvents :
       NetworkRequest(t, raw, MaxEvents)

SpecNet == Init /\ [][NextNet]_vars

\* the log writer under the commands, with a failing write
NextWriter ==
  \/ \E p \in Prefixes : CmdRun(p)
  \/ CmdWait
  \/ \E p \in Prefixes : CmdNew(p)
  \/ SetupSingleTabTracking(TRUE, "none", FALSE, TRUE)
  \/ \E t \in 1..Len(trackers) :
       NetworkRequest(t, WriterRequest(budget.events), MaxPipeEvents)
  \/ \E i \in 1..Len(writers) : LogWriterWrite(i)
  \/ \E i \in 1..Len(writers) : LogWriterWriteFails(i)
  \/ \E i \in 1..Len(writers) : LogWriterCancelled(i)

SpecWriter == Init /\ [][NextWriter]_vars

\* the writer under run, a new log file of another name, and the stop of
\* the monitor
NextWriterStop ==
  \/ CmdRun(0)
  \/ CmdWait
  \/ CmdNew(1)
  \/ SetupSingleTabTracking(TRUE, "none", FALSE, TRUE)
  \/ \E t \in 1..Len(trackers) :
       NetworkRequest(t, WriterRequest(budget.events), MaxPipeEvents)
  \/ \E i \in 1..Len(writers) : LogWriterWrite(i)
  \/ \E i \in 1..Len(writers) : LogWriterWriteFails(i)
  \/ \E i \in 1..Len(writers) : LogWriterCancelled(i)
  \/ CmdQuit
  \/ Disconnected

SpecWriterStop == Init /\ [][NextWriterStop]_vars

\* requests of both routes: an XHR and a Document, which are logged at once,
\* a Stylesheet, a request of type Other and one without a type, which are
\* bundled; the XHR and the Stylesheet have the same URL
RoutingEvents ==
  { [BaseRequest EXCEPT !.type = ty, !.request.url = Url(p, << >>)] :
      ty \in {"XHR", "Stylesheet"}, p \in {"/a.css"} }
  \cup { [BaseRequest EXCEPT !.type = ty] : ty \in {"Document", "Other", NoType} }

\* the deduplicator and the bundler on requests of both routes
NextRouting ==
  \/ CmdRun(0)
  \/ CmdWait
  \/ SetupSingleTabTracking(TRUE, "none", FALSE, TRUE)
  \/ \E t \in 1..Len(trackers), raw \in RoutingEvents :
       NetworkRequest(t, raw, MaxPipeEvents)
  \/ AddToBundle
  \/ \E i \in 1..Len(timers) : BundleTimeoutSleep(i)
  \/ \E i \in 1..Len(timers) : BundleTimeoutFlush(i)
  \/ \E i \in 1..Len(timers) : BundleTimeoutCancelled(i)
  \/ \E i \in 1..Len(writers) : LogWriterWrite(i)
  \/ Tick(BUNDLE_WINDOW, MaxTime)

SpecRouting == Init /\ [][NextRouting]_vars

\* the k-th request of a run of the bundler, sent by the page of session tab
\* for a resource of type ty: its URL tells the three apart (the path the
\* type, the parameter the session, the number of parameters k)
ResourceTypes == {"Stylesheet", "Image"}

ResourceUrl(k, tab, ty) ==
  Url(IF ty = "Stylesheet" THEN "/a.css" ELSE "/c.png",
      [i \in 1..k |-> IF tab = 1 THEN "foo=2" ELSE "foo=1"])

ResourceRequest(k, tab, ty) ==
  RawEvent(Str("r1", 2), Num(1), ty, ResourceUrl(k, tab, ty), "GET", Str("json", 16), Str("p", 1))

\* the bundler on the resource requests of two sessions
NextBundleOrder ==
  \/ CmdRun(0)
  \/ CmdQuit
  \/ SetupMultiTabTracking(TRUE, "none", FALSE, TRUE)
  \/ \E t \in 1..Len(trackers), ty \in ResourceTypes :
       NetworkRequest(t, ResourceRequest(budget.events + 1, trackers[t].page_id, ty), MaxPipeEvents)
  \/ AddToBundle
  \/ \E i \in 1..Len(timers) : BundleTimeoutSleep(i)
  \/ \E i \in 1..Len(timers) : BundleTimeoutFlush(i)
  \/ \E i \in 1..Len(timers) : BundleTimeoutCancelled(i)
  \/ \E i \in 1..Len(writers) : LogWriterWrite(i)
  \/ Tick(BUNDLE_WINDOW, MaxTime)

\* --all-tabs, a browser with two pages
InitBundleOrder == InitTwoPages /\ track_all_tabs = TRUE

SpecBundleOrder == InitBundleOrder /\ [][NextBundleOrder]_vars

\* the writer under every command that leaves the loop running
NextWriterCmds ==
  \/ CmdRun(0)
  \/ CmdWait
  \/ CmdNew(1)
  \/ CmdConnect
  \/ ReconnectDisconnected
  \/ \E ok \in BOOLEAN : ReconnectConnected(ok)
  \/ SetupSingleTabTracking(TRUE, "none", FALSE, TRUE)
  \/ \E t \in 1..Len(trackers) :
       NetworkRequest(t, WriterRequest(budget.events), MaxPipeEvents)
  \/ \E i \in 1..Len(writers) : LogWriterWrite(i)
  \/ \E i \in 1..Len(writers) : LogWriterWriteFails(i)
  \/ \E i \in 1..Len(writers) : LogWriterCancelled(i)

SpecWriterCmds == Init /\ [][NextWriterCmds]_vars

\* the writer with every write succeeding, and the scheduler fair: a task
\* that can run is run, and the disconnect of the finally of start() returns
NextWriterLive ==
  \/ CmdRun(0)
  \/ CmdWait
  \/ CmdNew(1)
  \/ SetupSingleTabTracking(TRUE, "none", FALSE, TRUE)
  \/ \E t \in 1..Len(trackers) :
       NetworkRequest(t, WriterRequest(budget.events), MaxPipeEvents)
  \/ \E i \in 1..Len(writers) : LogWriterWrite(i)
  \/ \E i \in 1..Len(writers) : LogWriterCancelled(i)
  \/ CmdQuit
  \/ Disconnected

SpecWriterLive ==
  /\ Init
  /\ [][NextWriterLive]_vars
  /\ WF_vars(\E i \in 1..Len(writers) : LogWriterWrite(i))
  /\ WF_vars(\E i \in 1..Len(writers) : LogWriterCancelled(i))
  /\ WF_vars(Disconnected)

\* the click limiter in either mode, on a browser with two pages: tracking
\* is set up before time passes, then every console message goes to the
\* handler of its tracker and to a UIScanner
NextClick ==
  \/ now = 0 /\ CmdRun(0)
  \/ SetupSingleTabTracking(TRUE, "none", FALSE, TRUE)
  \/ SetupMultiTabTracking(TRUE, "none", FALSE, TRUE)
  \/ \E t \in 1..Len(trackers) : HandleConsoleApi(t, "ok") /\ UIScannerProcessEvent(TRUE)
  \/ \E i \in 1..Len(writers) : LogWriterWrite(i)
  \/ Tick(1, MaxClickTime)

SpecClick == InitTwoPages /\ [][NextClick]_vars

\* the resource bundler on a browser with two pages, in either mode
NextBundleTabs ==
  \/ CmdRun(0)
  \/ SetupSingleTabTracking(TRUE, "none", FALSE, TRUE)
  \/ SetupMultiTabTracking(TRUE, "none", FALSE, TRUE)
  \/ \E t \in 1..Len(trackers), raw \in BundleEvents :
       NetworkRequest(t, raw, MaxPipeEvents)
  \/ AddToBundle
  \/ \E i \in 1..Len(timers) : BundleTimeoutSleep(i)
  \/ \E i \in 1..Len(timers) : BundleTimeoutFlush(i)
  \/ \E i \in 1..Len(timers) : BundleTimeoutCancelled(i)
  \/ \E i \in 1..Len(writers) : LogWriterWrite(i)
  \/ Tick(5, MaxTime)

SpecBundleTabs == InitTwoPages /\ [][NextBundleTabs]_vars

\* ------------------------------------------------------------ truncation
\* The values given to _truncate_value: strings around MAX_VALUE_LENGTH,
\* numbers, lists and dicts of up to MaxItems of them, and nestings
TruncateLeaves == { Str("a", 5), Str("a", 200), Num(1) }

StringInputs == { Str("a", n) : n \in {0, 5, 128, 129, 143, 200, 1000} } \cup { Num(1) }

ListInputs ==
  { [list |-> items] : items \in UNION { [1..k -> TruncateLeaves] : k \in 0..MaxItems } }

DictInputs ==
  { [dict |-> [i \in DOMAIN items |-> [k |-> i, v |-> items[i]]]] :
      items \in UNION { [1..k -> TruncateLeaves] : k \in 0..MaxItems } }

NestedInputs ==
  { [list |-> << [dict |-> << [k |-> 1, v |-> leaf] >>], leaf >>] : leaf \in TruncateLeaves }
  \cup { [dict |-> << [k |-> 1, v |-> [list |-> << leaf, [list |-> << leaf >>] >>]] >>] :
           leaf \in TruncateLeaves }

TruncateInputs == StringInputs \cup ListInputs \cup DictInputs \cup NestedInputs

\* a monitor and a value for _truncate_value
InitTruncate ==
  /\ InitState
  /\ track_all_tabs = FALSE
  /\ context_pages = << 1 >>
  /\ budget = [events |-> 0, cmds |-> 0, pages |-> 1, faults |-> 0, navs |-> 0]
  /\ \E v \in TruncateInputs : obs = [kind |-> "value", value |-> v, times |-> 0]

\* _truncate_value applied to the value, or to its own last result
Truncate ==
  /\ obs.kind \in {"value", "truncate"}
  /\ obs.times < MaxTruncations
  /\ LET v == IF obs.kind = "value" THEN obs.value ELSE obs.result
     IN obs' = [kind |-> "truncate", value |-> v, result |-> TruncateValue(v),
                times |-> obs.times + 1]
  /\ UNCHANGED << now, pc, track_all_tabs, is_logging, log_file_path, event_queue,
                  n_emitted, writerVars, dedupVars, bundleVars, clickVars, tabVars,
                  scanner, budget, hist >>

NextTruncate == Truncate

SpecTruncate == InitTruncate /\ [][NextTruncate]_vars

\* ---------------------------------------------------------- fingerprints
\* Pairs of events for the fingerprint of process(): the first with the base
\* query, header and body, the second with any; a URL here also has the
\* fragment urlparse splits off
FingerprintUrls(queries, fragments) ==
  { [scheme |-> sc, netloc |-> nl, path |-> pa, query |-> q, fragment |-> fr] :
      sc \in {"https", "http"}, nl \in {"x.test", "y.test"}, pa \in {"/api", "/b", ""},
      q \in queries, fr \in fragments }

FingerprintEvents(queries, fragments, headers, bodies) ==
  { [RawEvent(Str("r1", 2), Num(1), "XHR", u, m, h, b) EXCEPT !.tab_id = tab] :
      u \in FingerprintUrls(queries, fragments), m \in {"GET", "POST"},
      h \in headers, b \in bodies, tab \in {MainId, 0, 1} }

InitFingerprint ==
  /\ InitState
  /\ track_all_tabs = TRUE
  /\ context_pages = << 1, 2 >>
  /\ budget = [events |-> 0, cmds |-> 0, pages |-> 2, faults |-> 0, navs |-> 0]
  /\ \E a \in FingerprintEvents({<< "foo=1" >>}, {""}, {Str("json", 16)}, {Str("p", 1)}),
        b \in FingerprintEvents({<< "foo=1" >>, << "foo=2" >>, << >>}, {"", "top"},
                                {Str("json", 16), Str("form", 33)},
                                {Str("p", 1), Str("q", 1)}) :
       obs = [kind |-> "events", a |-> a, b |-> b]

\* lines 761-766 of process() on each of the two events
ComputeFingerprints ==
  /\ obs.kind = "events"
  /\ obs' = [kind |-> "fingerprints", a |-> obs.a, b |-> obs.b,
             fa |-> Fingerprint(obs.a.tab_id, obs.a.request.method, obs.a.request.url),
             fb |-> Fingerprint(obs.b.tab_id, obs.b.request.method, obs.b.request.url)]
  /\ UNCHANGED << now, pc, track_all_tabs, is_logging, log_file_path, event_queue,
                  n_emitted, writerVars, dedupVars, bundleVars, clickVars, tabVars,
                  scanner, budget, hist >>

NextFingerprint == ComputeFingerprints

SpecFingerprint == InitFingerprint /\ [][NextFingerprint]_vars

\* navigation on a tracked page, privileged or not
NextNav ==
  \/ CmdRun(0)
  \/ CmdWait
  \/ \E priv \in BOOLEAN, inj \in BOOLEAN : SetupSingleTabTracking(TRUE, "none", priv, inj)
  \/ \E t \in 1..Len(trackers), priv \in BOOLEAN :
       \E frame \in Frames(trackers[t]) : HandleNavigation(t, frame, priv)
  \/ \E inj \in BOOLEAN : NavigationSettled(inj)
  \/ \E i \in 1..Len(writers) : LogWriterWrite(i)

SpecNav == Init /\ [][NextNav]_vars

\* the console handler under every kind of payload
NextConsole ==
  \/ CmdRun(0)
  \/ CmdWait
  \/ SetupSingleTabTracking(TRUE, "none", FALSE, TRUE)
  \/ \E t \in 1..Len(trackers), payload \in Payloads :
       HandleConsoleApi(t, payload) /\ UNCHANGED scanner
  \/ \E i \in 1..Len(writers) : LogWriterWrite(i)
  \/ Tick(1, MaxConsoleTime)

SpecConsole == Init /\ [][NextConsole]_vars

\* tab tracking in either mode, with driver calls that raise
NextTabs ==
  \/ CmdRun(0)
  \/ CmdWait
  \/ CmdQuit
  \/ Disconnected
  \/ \E ok \in BOOLEAN, fail \in AttachFaults, priv \in BOOLEAN, inj \in BOOLEAN :
       SetupSingleTabTracking(ok, fail, priv, inj)
  \/ \E ok \in BOOLEAN, fail \in AttachFaults : SetupMultiTabTracking(ok, fail, FALSE, TRUE)
  \/ NewPage
  \/ \E ok \in BOOLEAN, fail \in AttachFaults : HandleNewPage(ok, fail, FALSE, TRUE)

SpecTabs == InitTabs /\ [][NextTabs]_vars

\* new pages under run, wait, new and reconnects
NextNewTab ==
  \/ CmdRun(0)
  \/ CmdWait
  \/ CmdNew(0)
  \/ CmdConnect
  \/ ReconnectDisconnected
  \/ ReconnectConnected(TRUE)
  \/ SetupSingleTabTracking(TRUE, "none", FALSE, TRUE)
  \/ SetupMultiTabTracking(TRUE, "none", FALSE, TRUE)
  \/ NewPage
  \/ \E ok \in BOOLEAN : HandleNewPage(ok, "none", FALSE, TRUE)

SpecNewTab == InitTabs /\ [][NextNewTab]_vars

\* ================================================================ claims
\* Whether a RESOURCE_BUNDLE record lists the URL of the resource event e
Lists(rec, e) ==
  /\ rec.type = "RESOURCE_BUNDLE"
  /\ rec.data.tab_id = e.tab_id
  /\ \E k \in DOMAIN rec.data.by_type : SimplifyUrl(e.request.url) \in Range(rec.data.by_type[k])

\* C1: for every fingerprint of which a request was processed while logging
\* was active, exactly one NETWORK_REQUEST record has been put on the output
\* queue, whatever run, wait and new did in between.
C1_ExactlyOneRequest ==
  \A fp \in hist.seen_logging : hist.req_count[fp] = 1

\* the accepted times t are at least MICRO_DEBOUNCE_WINDOW apart and at most
\* RATE_LIMIT_COUNT of them lie in the RATE_LIMIT_WINDOW that ends at any of them
WithinLimits(t) ==
  /\ \A i, j \in 1..Len(t) : i < j => t[j] - t[i] >= MICRO_DEBOUNCE_WINDOW
  /\ \A i \in 1..Len(t) :
       Cardinality({ j \in 1..i : t[j] >= t[i] - RATE_LIMIT_WINDOW }) <= RATE_LIMIT_COUNT

\* C2: the clicks accepted by the click handler, from whatever sessions they
\* come, number at most RATE_LIMIT_COUNT in any trailing RATE_LIMIT_WINDOW and
\* are at least MICRO_DEBOUNCE_WINDOW apart; the same holds of UIScanner.
C2_ClickLimiter ==
  /\ WithinLimits([i \in 1..Len(hist.accepted) |-> hist.accepted[i].at])
  /\ WithinLimits(scanner.accepted)

\* a click is turned down by the count cap while the window holds accepted
\* clicks of two sessions
C2_Witness ==
  /\ obs.kind = "click" /\ ~obs.accepted /\ obs.why = "count"
  /\ Len(scanner.accepted) >= RATE_LIMIT_COUNT
  /\ \E i, j \in 1..Len(hist.accepted) : hist.accepted[i].tab # hist.accepted[j].tab

\* C3: when the timer flushes a bundle while logging is active, every session
\* with events in the bundle gets exactly one RESOURCE_BUNDLE record, the
\* record lists the URL of every one of its events, and the flush comes no
\* earlier than BUNDLE_WINDOW after the last addition to that session's bundle.
C3_BundleFlush ==
  (obs.kind = "flush" /\ obs.by = "timer" /\ obs.logging /\ obs.bundle # << >>) =>
    \A e \in Range(obs.bundle) :
      /\ Cardinality({ i \in 1..Len(obs.records) :
                         /\ obs.records[i].type = "RESOURCE_BUNDLE"
                         /\ obs.records[i].data.tab_id = e.tab_id }) = 1
      /\ \E i \in 1..Len(obs.records) : Lists(obs.records[i], e)
      /\ obs.at >= obs.last_add[e.tab_id] + BUNDLE_WINDOW

\* the timer flushes a bundle of two different resources as one record
C3_Witness ==
  /\ obs.kind = "flush" /\ obs.by = "timer" /\ obs.logging
  /\ Len(obs.bundle) = 2
  /\ obs.bundle[1].request.url # obs.bundle[2].request.url
  /\ Len(obs.records) = 1

\* C4: no record derived from a raw event that arrived while logging was
\* paused is ever put on the output queue, also after logging is resumed.
C4_PausedEventsDropped == ~hist.paused_emitted

\* C5: once monitoring has stopped, every resource event that was pending in
\* the bundle, or handed to the bundler, when it stopped is in the log, in a
\* RESOURCE_BUNDLE record.
C5_StopFlushReachesLog ==
  pc.at = "stopped" =>
    \A e \in hist.stop_pending :
      \E p \in Paths : \E i \in 1..Len(files[p]) : Lists(files[p][i], e)

\* C6: the records are appended to the log in the order in which _log_event
\* put them on the output queue, and the queue holds them in that order.
C6_LogOrderIsEmissionOrder ==
  /\ \A i, j \in 1..Len(hist.written) : i < j => hist.written[i] < hist.written[j]
  /\ \A i, j \in 1..Len(event_queue) : i < j => event_queue[i].seq < event_queue[j].seq
  /\ \A p \in Paths : \A i, j \in 1..Len(files[p]) : i < j => files[p][i].seq < files[p][j].seq

\* records of several handlers have been written, to two files
C6_Witness ==
  /\ Len(hist.written) >= 3
  /\ \A p \in Paths : files[p] # << >>
  /\ \E p \in Paths : \E i \in 1..Len(files[p]) : files[p][i].type = "NETWORK_DIFF"

\* C7: the reference stored for a fingerprint is the first event processed
\* for it, in every state, and a later occurrence is compared with that event.
C7_ReferenceIsFirstEvent ==
  /\ DOMAIN reference_requests = DOMAIN hist.first_event
  /\ \A fp \in DOMAIN reference_requests : reference_requests[fp] = hist.first_event[fp]
  /\ (obs.kind = "process" /\ ~obs.bundled /\ ~obs.first) =>
       /\ obs.ref = hist.first_event[obs.fp]
       /\ \A i \in 1..Len(obs.records) :
            obs.records[i].data.changes = Changes(hist.first_event[obs.fp], obs.ev)

\* a third occurrence that differs from the first one
C7_Witness ==
  /\ obs.kind = "process" /\ ~obs.bundled /\ ~obs.first
  /\ budget.events >= 3
  /\ obs.records # << >>
  /\ obs.ev.request.headers # obs.ref.request.headers

\* the keys the deny-list names
DenyListed == {"callFrames", "postData", "postDataEntries", "wallTime", "timestamp"}

\* a scalar not under a deny-listed key differs between ref and ev
KeptChange(ref, ev) ==
  \E p \in LeafPaths : Leaf(ref, p) # Leaf(ev, p) /\ Range(p) \cap DenyListed = {}

\* C8: while logging is active, a request whose fingerprint has a reference
\* emits one NETWORK_DIFF record if a scalar outside the deny-listed paths
\* differs from the reference, and nothing otherwise.
C8_DiffIffKeptChange ==
  (obs.kind = "process" /\ ~obs.bundled /\ ~obs.first /\ obs.logging) =>
    /\ KeptChange(obs.ref, obs.ev) =>
         Len(obs.records) = 1 /\ obs.records[1].type = "NETWORK_DIFF"
    /\ ~KeptChange(obs.ref, obs.ev) => obs.records = << >>

\* a repeat that differs from the reference in a deny-listed value only
C8_Witness ==
  /\ obs.kind = "process" /\ ~obs.bundled /\ ~obs.first /\ obs.logging
  /\ obs.ev.wallTime # obs.ref.wallTime
  /\ obs.records = << >>

\* C9: no two pages are ever given the same session id, and no tracker in
\* the registry is overwritten.
C9_FreshSessionIds ==
  /\ ~hist.overwritten
  /\ \A a, b \in hist.assigned : a[2] = b[2] => a[1] = b[1]

\* C10: an exception of a driver call during the setup of tracking never
\* ends the command loop.
C10_SetupFaultsNonFatal == hist.stopped_by # "driver_fault"

\* the payloads the claim calls malformed
Malformed == {"no_args", "no_value", "non_string", "bad_json", "non_object"}

\* C11: the console handler returns normally on every malformed payload and
\* puts no record on the queue for it.
C11_MalformedDiscarded ==
  (obs.kind \in {"console", "click"} /\ obs.payload \in Malformed) =>
    ~obs.raised /\ obs.records = << >>

\* C12: every flush that emits puts every event of the bundle into its
\* RESOURCE_BUNDLE records, and the bundle is empty right after any flush.
C12_FlushIsAtomic ==
  obs.kind = "flush" =>
    /\ resource_bundle = << >>
    /\ obs.logging => \A e \in Range(obs.bundle) : \E i \in 1..Len(obs.records) : Lists(obs.records[i], e)
    /\ \A i \in 1..Len(obs.records) : \E e \in Range(obs.bundle) : Lists(obs.records[i], e)

\* shutdown flushes a bundle of two events while logging is active
C12_Witness ==
  /\ obs.kind = "flush" /\ obs.by = "shutdown" /\ obs.logging
  /\ Len(obs.bundle) = 2
  /\ obs.records # << >>

\* C13: the events of a session never stay in the bundle for longer than
\* BUNDLE_WINDOW after the last addition for that session.
C13_PerSessionTimer ==
  \A i \in 1..Len(resource_bundle) :
    now <= hist.last_add[resource_bundle[i].tab_id] + BUNDLE_WINDOW

\* C14: every timer flush is made by the timer scheduled last, which is the
\* one the bundler holds: no superseded timer flushes.
C14_OnlyNewestTimerFlushes ==
  (obs.kind = "flush" /\ obs.by = "timer") =>
    obs.timer = obs.n_timers /\ obs.timer = obs.current

\* a timer cancelled after its sleep was over has run and ended, and the
\* bundle still holds both events
C14_Witness ==
  /\ \E j \in 1..Len(timers) : timers[j].late /\ timers[j].st = "done"
  /\ Len(resource_bundle) = 2

\* C15: a flush of an empty bundle leaves the bundle and the output queue
\* as they are, and a flush of a non-empty bundle leaves the bundle empty.
C15_EmptyFlushIsNoOp ==
  [][ obs'.kind = "flush" =>
        /\ resource_bundle' = << >>
        /\ obs'.bundle = resource_bundle
        /\ resource_bundle = << >> => event_queue' = event_queue /\ n_emitted' = n_emitted ]_vars

\* shutdown flushes an empty bundle while logging is active and records wait
\* on the queue
C15_Witness ==
  /\ obs.kind = "flush" /\ obs.bundle = << >> /\ obs.logging
  /\ event_queue # << >>

\* the navigation handlers of tracker t that are in their settle delay
Settling(t) == Len(SelectSeq(nav_tasks, LAMBDA task : task.t = t))

\* C16: every navigation of the main frame to a URL that is not privileged
\* gives one re-injection once its settle delay is over and, with logging
\* active at that moment, exactly one PAGE_NAVIGATION record with the
\* tracker's session id and the new URL; a navigation of a child frame gives
\* no injection and no record.
C16_MainFrameNavigation ==
  /\ \A t \in 1..Len(trackers) :
       /\ trackers[t].nav_injections + Settling(t) = trackers[t].nav_main
       /\ trackers[t].nav_records <= trackers[t].nav_injections
  /\ (obs.kind = "navigation" /\ obs.logging) =>
       /\ Len(obs.records) = 1
       /\ obs.records[1].type = "PAGE_NAVIGATION"
       /\ obs.records[1].data = [url |-> obs.task.url, tab_id |-> obs.tab_id]
  /\ (obs.kind = "frame" /\ ~obs.main) => ~obs.sleeps

C16_Witness ==
  /\ obs.kind = "navigation" /\ obs.logging
  /\ budget.navs = MaxNavs
  /\ \E t \in 1..Len(trackers) : trackers[t].nav_main = 1 /\ trackers[t].nav_records = 1

\* the listener state of a tracker
ListenerState(tr) ==
  IF ~tr.listeners_attached THEN "unattached"
  ELSE IF tr.blocked THEN "blocked" ELSE "attached"

\* C17: a tracker that is attached or blocked stays so; a tracker blocked
\* because its page was privileged at attachment has had no injection by the
\* attachment, and a navigation event to a privileged URL starts no
\* re-injection.
C17_ListenerState ==
  [][ /\ \A t \in 1..Len(trackers) :
           ListenerState(trackers[t]) # "unattached" =>
             ListenerState(trackers'[t]) = ListenerState(trackers[t])
      /\ \A t \in 1..Len(trackers') :
           ListenerState(trackers'[t]) = "blocked" =>
             /\ trackers'[t].attach_injections = 0
             /\ trackers'[t].nav_injections = 0 => ~trackers'[t].injected
      /\ (obs'.kind = "frame" /\ obs'.privileged) =>
           /\ nav_tasks' = nav_tasks
           /\ \A t \in 1..Len(trackers) :
                trackers'[t].nav_injections = trackers[t].nav_injections
    ]_vars

C17_Witness ==
  /\ obs.kind = "frame" /\ obs.privileged /\ obs.main
  /\ trackers[obs.t].blocked /\ trackers[obs.t].nav_injections = 0

\* C18: truncating the result of a truncation returns that result.
C18_TruncateIdempotent ==
  obs.kind = "truncate" => TruncateValue(obs.result) = obs.result

\* the two events are the same request, on whatever tab
SameRequest(a, b) == \A p \in LeafPaths \ { << "tab_id" >> } : Leaf(a, p) = Leaf(b, p)

HeaderPath == << "request", "headers", "Content-Type" >>

\* C19: while logging is active, the first request of a fingerprint emits a
\* NETWORK_REQUEST record, and the request that differs from its reference
\* (query foo=1) in the query (foo=2) and in one header value emits one
\* NETWORK_DIFF record whose change map has the path of that header and no
\* other.
C19_OnlyHeaderPath ==
  (obs.kind = "process" /\ ~obs.bundled /\ obs.logging) =>
    /\ obs.first => Len(obs.records) = 1 /\ obs.records[1].type = "NETWORK_REQUEST"
    /\ (/\ ~obs.first
        /\ SameRequest(obs.ref, BaseRequest)
        /\ SameRequest(obs.ev, QueryAndHeaderChanged)) =>
          /\ Len(obs.records) = 1
          /\ obs.records[1].type = "NETWORK_DIFF"
          /\ DOMAIN obs.records[1].data.changes = { HeaderPath }

\* session id, method, scheme, host and path of an event
FingerprintParts(ev) ==
  << ev.tab_id, ev.request.method, ev.request.url.scheme, ev.request.url.netloc,
     ev.request.url.path >>

\* C20: two requests have the same fingerprint exactly if they have the same
\* session id, method, scheme, host and path, whatever their query strings,
\* fragments, headers and bodies.
C20_FingerprintParts ==
  obs.kind = "fingerprints" =>
    (obs.fa = obs.fb <=> FingerprintParts(obs.a) = FingerprintParts(obs.b))

\* two requests that differ in query, fragment, header and body only
C20_Witness ==
  /\ obs.kind = "fingerprints"
  /\ obs.fa = obs.fb
  /\ obs.a.request.url.query # obs.b.request.url.query
  /\ obs.a.request.url.fragment # obs.b.request.url.fragment
  /\ obs.a.request.headers # obs.b.request.headers
  /\ obs.a.request.postData # obs.b.request.postData

\* C21: after the command new, with any prefix, the active log file is
\* another file than the one active before the command.
C21_NewStartsFreshFile == obs.kind = "new" => log_file_path # obs.before

\* C22: an exception of open() or write() ends the writer task and loses the
\* record it had taken, and changes nothing else: the command loop stays where
\* it is, logging stays as it is, and the trackers, the bundler, the reference
\* table and the click limiter are untouched.
C22_WriteFailureOnlyEndsWriter ==
  [][ obs'.kind = "write_failed" =>
        /\ writers'[obs'.writer] = "failed"
        /\ \A k \in 1..Len(event_queue') : event_queue'[k].seq # obs'.record.seq
        /\ files' = files
        /\ pc' = pc /\ is_logging' = is_logging
        /\ UNCHANGED << tabVars, bundleVars, dedupVars, clickVars >>
    ]_vars

\* after a failed write a request is processed and its record is queued
C22_Witness ==
  /\ \E i \in 1..Len(writers) : writers[i] = "failed"
  /\ obs.kind = "process" /\ obs.records # << >>
  /\ LoopRunning

\* the sequence numbers of the records in s
Seqs(s) == { s[k].seq : k \in 1..Len(s) }

\* C23: every record put on the output queue is still in the queue, or has
\* been appended to a log file, or was taken by a write that raised; a
\* cancelled writer ends without taking a record from the queue.
C23_CancelLosesNoRecord ==
  /\ Seqs(event_queue) \cup Range(hist.written) \cup Range(hist.lost) = 1..n_emitted
  /\ Len(event_queue) + Len(hist.written) + Len(hist.lost) = n_emitted
  /\ Range(hist.written) = UNION { Seqs(files[p]) : p \in Paths }
  /\ obs.kind = "writer_cancelled" => event_queue = obs.queue

\* a writer cancelled with records waiting in the queue has ended
C23_Witness ==
  /\ obs.kind = "writer_cancelled" /\ obs.queue # << >>
  /\ hist.written # << >>
  /\ writers[obs.writer] = "done"

\* C24: the step of _reconnect that resets the tracking state leaves the
\* reference table empty, and every other step keeps every entry.
C24_ReferencesClearedByReconnect ==
  [][ IF pc.at = "reconnect_disconnect" /\ pc'.at = "reconnect_connect"
      THEN reference_requests' = EmptyMap
      ELSE \A fp \in DOMAIN reference_requests :
             fp \in DOMAIN reference_requests' /\ reference_requests'[fp] = reference_requests[fp]
    ]_vars

\* the times of the accepted clicks of all sessions, in order
AcceptedTimes == [i \in 1..Len(hist.accepted) |-> hist.accepted[i].at]

\* C25: the last-accepted time is that of the last accepted click of any
\* session and the window holds the latest accepted clicks of all sessions;
\* a click is accepted only if no click of any other session was accepted
\* less than MICRO_DEBOUNCE_WINDOW before it and if, with it, at most
\* RATE_LIMIT_COUNT clicks of all sessions lie in the RATE_LIMIT_WINDOW that
\* ends at it.
C25_LimiterSharedBySessions ==
  /\ hist.accepted # << >> => last_log_time = hist.accepted[Len(hist.accepted)].at
  /\ \E k \in 0..Len(hist.accepted) :
       ui_click_timestamps = SubSeq(AcceptedTimes, k + 1, Len(hist.accepted))
  /\ (obs.kind = "click" /\ obs.accepted) =>
       /\ \A i \in 1..(Len(hist.accepted) - 1) :
            hist.accepted[i].tab # obs.tab =>
              obs.at - hist.accepted[i].at >= MICRO_DEBOUNCE_WINDOW
       /\ Cardinality({ i \in 1..Len(hist.accepted) :
                          hist.accepted[i].at >= obs.at - RATE_LIMIT_WINDOW })
            <= RATE_LIMIT_COUNT

\* a click of one session is turned down by the debounce because of a click
\* accepted from another session, the first of that session having none
C25_Witness ==
  /\ obs.kind = "click" /\ ~obs.accepted /\ obs.why = "debounce"
  /\ hist.accepted # << >>
  /\ \A i \in 1..Len(hist.accepted) : hist.accepted[i].tab # obs.tab

\* C26: whatever arrives after it, an event is not held in the bundle beyond
\* BUNDLE_WINDOW after the addition that made the bundle non-empty: the flush
\* of the events held is not put off by later additions, so that a stream
\* with short gaps cannot keep them in the bundle.
C26_BundleDrains ==
  resource_bundle # << >> => now <= hist.first_add + BUNDLE_WINDOW

\* the place in the output queue of the record with that sequence number
\* (0: not in the queue)
QueuePlace(seq) ==
  IF \E k \in 1..Len(event_queue) : event_queue[k].seq = seq
  THEN CHOOSE k \in 1..Len(event_queue) : event_queue[k].seq = seq
  ELSE 0

\* C27: of two raw request events of one session that both gave a
\* NETWORK_REQUEST or NETWORK_DIFF record, the record of the one delivered
\* first was put on the output queue first and stands before the other in it.
C27_RecordsInArrivalOrder ==
  \A i, j \in 1..Len(hist.derived) :
    LET a == hist.derived[i]
        b == hist.derived[j]
    IN (a.tab = b.tab /\ a.arrival < b.arrival) =>
         /\ a.seq < b.seq
         /\ (QueuePlace(a.seq) # 0 /\ QueuePlace(b.seq) # 0) =>
              QueuePlace(a.seq) < QueuePlace(b.seq)

\* a NETWORK_REQUEST and a later NETWORK_DIFF of one session are in the queue
C27_Witness ==
  \E i, j \in 1..Len(event_queue) :
    /\ i < j
    /\ event_queue[i].type = "NETWORK_REQUEST" /\ event_queue[j].type = "NETWORK_DIFF"
    /\ event_queue[i].data.tab_id = event_queue[j].data.tab_id
    /\ Len(hist.derived) >= 2

RuleAccepts(window, last, t) ==
  /\ t - last >= MICRO_DEBOUNCE_WINDOW
  /\ Cardinality({ i \in 1..Len(window) : window[i] >= t - RATE_LIMIT_WINDOW })
       < RATE_LIMIT_COUNT

\* the window without its entries older than t - RATE_LIMIT_WINDOW
Evicted(window, t) == SelectSeq(window, LAMBDA x : x >= t - RATE_LIMIT_WINDOW)

\* C29: the click handler and UIScanner accept a click exactly when the
\* reference rule does; an accepted click is appended to the window, from
\* which the old entries are gone, and becomes the last accepted time; a
\* click turned down leaves the last accepted time and adds no entry.
C29_ClickDecisionIsRule ==
  [][ obs'.kind = "click" =>
        /\ obs'.accepted = RuleAccepts(ui_click_timestamps, last_log_time, now)
        /\ IF obs'.accepted
           THEN /\ ui_click_timestamps' = Append(Evicted(ui_click_timestamps, now), now)
                /\ last_log_time' = now
           ELSE /\ last_log_time' = last_log_time
                /\ ui_click_timestamps' \in { ui_click_timestamps, Evicted(ui_click_timestamps, now) }
        /\ IF RuleAccepts(scanner.ts, scanner.last, now)
           THEN /\ scanner'.ts = Append(Evicted(scanner.ts, now), now)
                /\ scanner'.last = now
                /\ scanner'.accepted = Append(scanner.accepted, now)
           ELSE /\ scanner'.last = scanner.last
                /\ scanner'.accepted = scanner.accepted
                /\ scanner'.ts \in { scanner.ts, Evicted(scanner.ts, now) }
    ]_vars

\* a click is accepted exactly MICRO_DEBOUNCE_WINDOW after the one before it,
\* with entries of the window evicted
C29_Witness ==
  /\ obs.kind = "click" /\ obs.accepted
  /\ Len(hist.accepted) >= 2
  /\ obs.at - hist.accepted[Len(hist.accepted) - 1].at = MICRO_DEBOUNCE_WINDOW
  /\ Len(ui_click_timestamps) < Len(hist.accepted)

\* the command loop is inside _reconnect: at one of its two connection
\* awaits, or in the _ensure_listeners it calls to resume logging
InReconnect ==
  \/ pc.at \in { "reconnect_disconnect", "reconnect_connect" }
  \/ pc.at = "ensure" /\ pc.was

\* C30: while _reconnect is in progress no record is put on the queue, and
\* when it returns to the prompt is_logging is what it was when the command
\* was given.
C30_ReconnectPausesAndResumes ==
  [][ InReconnect =>
        /\ n_emitted' = n_emitted
        /\ (pc'.at = "prompt" => is_logging' = pc.was)
    ]_vars

\* the most records a run of the writer specifications puts on the queue:
\* one SESSION_START per command and one record per request
MaxRecords == MaxCmds + MaxPipeEvents

\* C31: with every write succeeding and a fair scheduler, every record put
\* on the output queue is appended to a log file at some later time, the
\* records in the queue at a quit or at a new log file included.
C31_EveryRecordWritten ==
  \A s \in 1..MaxRecords :
    (s \in Seqs(event_queue)) ~> (s \in Range(hist.written))

\* every record put on the queue and not lost: queued or in a file
Emitted == Range(event_queue) \cup UNION { Range(files[p]) : p \in Paths }

\* the log file active when the record numbered s was put on the queue: the
\* one named by the last SESSION_START up to s (_start_new_log_file selects
\* the file and emits its SESSION_START in one step)
ActiveAt(s) ==
  LET starts == { r \in Emitted : r.type = "SESSION_START" /\ r.seq <= s }
  IN (CHOOSE r \in starts : \A q \in starts : q.seq <= r.seq).data.log_file

\* C32: every line of a log file is a record that was put on the queue while
\* that file was the active one, and the first line of a file is its
\* SESSION_START.
C32_WrittenToActiveFile ==
  \A p \in Paths :
    /\ \A k \in 1..Len(files[p]) : ActiveAt(files[p][k].seq) = p
    /\ files[p] # << >> => files[p][1].type = "SESSION_START"

\* the lines of all log files, file after file
AllLines == [k \in 1..Len(files[1]) + Len(files[2]) |->
               IF k <= Len(files[1]) THEN files[1][k] ELSE files[2][k - Len(files[1])]]

\* C33: at most one writer task is able to take a record from the queue,
\* the task the monitor holds; no record is taken twice and none is a
\* line of the log files twice.
C33_OneWriter ==
  /\ \A i \in 1..Len(writers) : writers[i] = "running" => i = log_writer_task
  /\ \A j, k \in 1..Len(hist.written) : hist.written[j] = hist.written[k] => j = k
  /\ \A j, k \in 1..Len(AllLines) : AllLines[j].seq = AllLines[k].seq => j = k
  /\ Len(AllLines) = Len(hist.written)

\* the second writer has written a record while the first, cancelled, has
\* not yet run again, after a reconnect
C33_Witness ==
  /\ Len(writers) >= 2
  /\ writers[1] = "cancelled"
  /\ writers[log_writer_task] = "running"
  /\ Len(hist.written) >= 2
  /\ budget.pages > 1

\* C34: a click message that puts no UI_CLICK record on the queue (logging
\* paused, the payload not parsed, the click turned down) records no
\* timestamp: last_accepted keeps its value and the window gets no entry.
C34_OnlyLoggedClicksCount ==
  [][ (obs'.kind = "click" /\ obs'.records = << >>) =>
        /\ last_log_time' = last_log_time
        /\ ui_click_timestamps' \in { ui_click_timestamps, Evicted(ui_click_timestamps, now) }
    ]_vars

\* C35: when _ensure_listeners returns to the prompt with logging active,
\* every registered tracker of a page that is still open has its listeners
\* attached (no attachment fails in SpecNewTab).
C35_PausedTabsAttachedOnResume ==
  [][ ( /\ pc'.at = "prompt" /\ is_logging'
        /\ (pc.at = "ensure" \/ budget'.cmds # budget.cmds) ) =>
        \A id \in DOMAIN page_trackers' :
          trackers'[page_trackers'[id]].alive =>
            trackers'[page_trackers'[id]].listeners_attached
    ]_vars

\* the flush timers that are pending and not cancelled
PendingTimers == { i \in 1..Len(timers) : timers[i].st \in {"created", "sleeping"} }

\* C36: between task steps at most one flush timer is pending and not
\* cancelled, the one the deduplicator holds, and while the loop runs a
\* non-empty bundle has exactly one.
C36_OneFlushTimer ==
  /\ Cardinality(PendingTimers) <= 1
  /\ PendingTimers \subseteq { bundle_timer }
  /\ (LoopRunning /\ resource_bundle # << >>) => Cardinality(PendingTimers) = 1

\* two events are held, the timer of the first is cancelled and has not yet
\* run again, the timer of the second is pending
C36_Witness ==
  /\ Len(resource_bundle) >= 2
  /\ Len(timers) >= 2
  /\ timers[1].st = "cancelled"
  /\ PendingTimers = { 2 }

\* C37: a click more than RATE_LIMIT_WINDOW after the last accepted one is
\* accepted, by the click handler and by UIScanner, and leaves a window that
\* holds nothing but its own time.
C37_NoPermanentLockout ==
  [][ obs'.kind = "click" =>
        /\ (now - last_log_time > RATE_LIMIT_WINDOW) =>
              (obs'.accepted /\ ui_click_timestamps' = << now >> /\ last_log_time' = now)
        /\ (now - scanner.last > RATE_LIMIT_WINDOW) =>
              (scanner'.ts = << now >> /\ scanner'.last = now)
    ]_vars

\* the window was full at the accepted click before this one, and this click,
\* more than RATE_LIMIT_WINDOW later, is accepted
C37_Witness ==
  /\ obs.kind = "click" /\ obs.accepted
  /\ Len(hist.accepted) > RATE_LIMIT_COUNT
  /\ LET n == Len(hist.accepted)
     IN /\ obs.at - hist.accepted[n - 1].at > RATE_LIMIT_WINDOW
        /\ hist.accepted[n - 1].at - hist.accepted[n - RATE_LIMIT_COUNT].at <= RATE_LIMIT_WINDOW
  /\ ui_click_timestamps = << now >>

\* C38: no two trackers with attached listeners are on the same open page.
C38_NoPageTrackedTwice ==
  \A i, j \in 1..Len(trackers) :
    ( /\ trackers[i].page = trackers[j].page
      /\ trackers[i].alive /\ trackers[j].alive
      /\ trackers[i].listeners_attached /\ trackers[j].listeners_attached ) => i = j

\* the resource type of the event is in the bundled set, or is missing
IsBundledType(ev) == ev.type = NoType \/ ev.type \in BUNDLED_TYPES

\* C39: process() on an event of a bundled type, or of no type, starts one
\* add task and changes neither the reference table nor the queue; on any
\* other event it starts no add task and puts only NETWORK_REQUEST or
\* NETWORK_DIFF records on the queue. Only events of bundled types are in
\* the add tasks, in the bundle and in a flush; only other events are in the
\* reference table.
C39_RoutingExclusive ==
  [][ /\ obs'.kind = "process" =>
           IF IsBundledType(obs'.ev)
           THEN /\ add_tasks' = Append(add_tasks, obs'.ev)
                /\ reference_requests' = reference_requests
                /\ event_queue' = event_queue
           ELSE /\ add_tasks' = add_tasks
                /\ resource_bundle' = resource_bundle
                /\ \A k \in 1..Len(obs'.records) :
                     obs'.records[k].type \in {"NETWORK_REQUEST", "NETWORK_DIFF"}
      /\ obs'.kind = "flush" =>
           /\ \A e \in Range(obs'.bundle) : IsBundledType(e)
           /\ \A k \in 1..Len(obs'.records) : obs'.records[k].type = "RESOURCE_BUNDLE"
      /\ \A e \in Range(add_tasks') \cup Range(resource_bundle') : IsBundledType(e)
      /\ \A fp \in DOMAIN reference_requests' : ~IsBundledType(reference_requests'[fp])
    ]_vars

\* a flush of a bundle that holds a request without a type, with a
\* reference stored for a request of the same URL that is not bundled
C39_Witness ==
  /\ obs.kind = "flush" /\ obs.records # << >>
  /\ \E e \in Range(obs.bundle) : e.type = NoType
  /\ reference_requests # EmptyMap

\* the URLs that the RESOURCE_BUNDLE records of recs list for session tab
\* under the key, record after record
RECURSIVE BundleUrls(_, _, _)
BundleUrls(recs, tab, key) ==
  IF recs = << >> THEN << >>
  ELSE LET r == Head(recs)
       IN (IF r.type = "RESOURCE_BUNDLE" /\ r.data.tab_id = tab /\ key \in DOMAIN r.data.by_type
           THEN r.data.by_type[key]
           ELSE << >>) \o BundleUrls(Tail(recs), tab, key)

\* the records in the order of their emission: the lines of the log file,
\* then the queue
EmittedInOrder == files[GetLogPath(0)] \o event_queue

\* which request of the run a listed URL belongs to
ArrivalOf(u) == Len(u.url.query)

\* C40: for each session and resource type, the URLs of its RESOURCE_BUNDLE
\* records, taken in the order of emission, are URLs of requests of that
\* session and type that have arrived, each listed once and in the order of
\* arrival.
C40_BundleUrlsInArrivalOrder ==
  \A tab \in {0, 1}, ty \in ResourceTypes :
    LET us == BundleUrls(EmittedInOrder, tab, Pluralize(ty))
    IN /\ \A i, j \in 1..Len(us) : i < j => ArrivalOf(us[i]) < ArrivalOf(us[j])
       /\ \A i \in 1..Len(us) :
            /\ ArrivalOf(us[i]) \in 1..budget.events
            /\ us[i] = SimplifyUrl(ResourceUrl(ArrivalOf(us[i]), tab, ty))

\* two records of one session each list one request of the same type
C40_Witness ==
  \E tab \in {0, 1}, ty \in ResourceTypes :
    /\ Len(BundleUrls(EmittedInOrder, tab, Pluralize(ty))) >= 2
    /\ \E k \in 1..Len(EmittedInOrder) :
         LET r == EmittedInOrder[k]
         IN /\ r.type = "RESOURCE_BUNDLE" /\ r.data.tab_id = tab
            /\ Pluralize(ty) \in DOMAIN r.data.by_type
            /\ Len(r.data.by_type[Pluralize(ty)]) = 1

====
